---- MODULE Spec2Model ----
(***************************************************************************)
(* Model of the transactional core of the bank backend: execTx             *)
(* (db/sqlc/exec_tx.go) and TransferTx / addMoney (db/sqlc/tx_transfer.go, *)
(* the file under src/unnamed/part_007), running as concurrent calls       *)
(* against one relational store.                                           *)
(*                                                                         *)
(* The store's statements (CreateTransfer, CreateEntry, AddAccountBalance) *)
(* are generated code that is not part of the sources; they are modelled   *)
(* from the specification's Entity Store interface: inserts are private to *)
(* the transaction until commit, the additive balance update takes the     *)
(* account's row lock and holds it until the transaction ends.             *)
(*                                                                         *)
(* The same execTx actions carry the two other units of work of the store, *)
(* CreateUserTx (src/unnamed/part_005, called by the CreateUser RPC of     *)
(* src/unnamed/part_003) and VerifyEmailTx (db/sqlc/tx_verify_email.go),   *)
(* each under a specification of its own (UserSpec, VerifySpec).  TaskSpec *)
(* models the processing of the send-verify-email task                     *)
(* (src/unnamed/part_001, part_002) by the workers of the task queue.      *)
(***************************************************************************)
EXTENDS Integers, FiniteSets, Sequences, TLC

(* ----------------------------- bounds --------------------------------- *)
\* call slots of the model
NumTx == 3
\* calls of TransferTx issued concurrently in a pair workload
MaxCalls == 2
NumAccounts == 3
MaxAmount == 2
\* account a starts with balance InitialBalance * a
InitialBalance == 10

Txs == 1..NumTx
Accounts == 1..NumAccounts
Amounts == 1..MaxAmount

VARIABLES
    balance,      \* committed accounts.balance, by account id
    transfers,    \* committed transfers rows
    entries,      \* committed entries rows
    lock,         \* row lock on each account: the holding call, or 0
    pc,           \* position of each TransferTx call
    arg,          \* TransferTxParams of each call
    pend,         \* uncommitted writes of each call's transaction
    failed,       \* the store has put the call's transaction in the failed state
    err,          \* the callback's local variable err
    fnErr,        \* the value the callback returned to execTx
    account1,     \* addMoney's named result account1
    result,       \* TransferTxResult
    ret,          \* the error TransferTx returned
    applied,      \* balance deltas the call's commit made durable
    issued,       \* the Commit and Rollback statements execTx issued for each
                  \* call, in order, each with the error it returned
    users,        \* committed users rows
    verifyEmails, \* committed verify_emails rows
    tasks,        \* the tasks the queue backend holds, in order of arrival
    code,         \* the gRPC status code each CreateUser call answered with
    called,       \* how often each call's AfterCreate callback was invoked
    wrote,        \* the verify_emails ids and usernames whose update the
                  \* call's commit made durable
    events,       \* for each task, what its processing attempts ended in
    mails,        \* the emails the notifier accepted
    running,      \* the task each worker of the processor has in progress
    gets,         \* for each task, how often its handler called store.GetUser
    logged,       \* for each task, what the processor's ErrorHandler logged:
                  \* the number of its reports and the last of them
    now,          \* the time, in seconds
    cancelled     \* whether the context of each call has been cancelled

\* the tables that only CreateUserTx, VerifyEmailTx and the task handler
\* write, and the record of who wrote them
tableVars == <<users, verifyEmails, wrote>>

\* the task queue, its processor and the notifier
queueVars == <<tasks, events, mails, running, gets, logged, now>>

\* the state outside the store
frontVars == <<queueVars, code, called, cancelled>>

vars == <<balance, transfers, entries, lock, pc, arg, pend, failed, err,
          fnErr, account1, result, ret, applied, issued, users, verifyEmails,
          tasks, code, called, wrote, events, mails, running, gets, logged,
          now, cancelled>>

(* ----------------------------- values --------------------------------- *)
\* the worker routines of the task processor
NumWorkers == 2
Workers == 1..NumWorkers

Nil == "nil"

\* the zero value of the Account struct
ZeroAccount == [id |-> 0, balance |-> 0]

\* the zero value of TransferTxResult
ZeroResult == [Transfer |-> {}, FromEntry |-> {}, ToEntry |-> {},
               FromAccount |-> ZeroAccount, ToAccount |-> ZeroAccount]

ZeroDelta == [a \in Accounts |-> 0]

\* users: inserted users rows; used: ids of verify_emails rows marked used;
\* verified: usernames whose is_email_verified was set
NoWrites == [transfers |-> {}, entries |-> {}, delta |-> ZeroDelta,
             users |-> {}, used |-> {}, verified |-> {}]

\* TransferTxParams
Args == [FromAccountID : Accounts, ToAccountID : Accounts, Amount : Amounts]

\* the parameters of a slot in which no call is made
NoCall == [FromAccountID |-> 0, ToAccountID |-> 0, Amount |-> 0]

Balance0(a) == InitialBalance * a

\* a commit that made no update of verify_emails or users durable
NoUpdates == [used |-> {}, verified |-> {}]

\* no answer given yet
NoCode == "none"

\* the first statement of the callback a call passes to execTx
Callback(a) ==
    IF "FromAccountID" \in DOMAIN a THEN "CreateTransfer"
    ELSE IF "Username" \in DOMAIN a THEN "CreateUser"
    ELSE "UpdateVerifyEmail"

\* the two accounts of a pair workload
X == 1
Y == 2

\* MaxCalls concurrent calls between X and Y, each in either direction, all of
\* the same amount (the workload of TestTransferTx and TestTransferTxDeadlock)
PairWorkloads ==
    {w \in [Txs -> Args \cup {NoCall}] :
        /\ \A t \in Txs : (w[t] # NoCall) <=> (t <= MaxCalls)
        /\ \A t \in Txs : w[t] # NoCall =>
               /\ {w[t].FromAccountID, w[t].ToAccountID} = {X, Y}
               /\ w[t].Amount = w[1].Amount}

(* ------------------- TransferTx: what it asks of the store ------------ *)

\* CreateTransferParams built by TransferTx, and the row the insert returns
TransferRow(t, a) ==
    [call |-> t, from_account_id |-> a.FromAccountID,
     to_account_id |-> a.ToAccountID, amount |-> a.Amount]

\* CreateEntryParams of the debit entry, and the row the insert returns
FromEntryRow(t, a) ==
    [call |-> t, seq |-> 1, account_id |-> a.FromAccountID, amount |-> -a.Amount]

\* a credit entry booked on the from-account
ToEntryRowOnSender(t, a) ==
    [call |-> t, seq |-> 2, account_id |-> a.FromAccountID, amount |-> a.Amount]

\* CreateEntryParams of the credit entry, and the row the insert returns
ToEntryRow(t, a) ==
    [call |-> t, seq |-> 2, account_id |-> a.ToAccountID, amount |-> a.Amount]

\* addMoney called with the sender first, whatever the ids
addMoneyArgsSenderFirst(a) ==
    [accountID1 |-> a.FromAccountID, amount1 |-> -a.Amount,
     accountID2 |-> a.ToAccountID,   amount2 |-> a.Amount]

\* addMoney called with the higher account id first
addMoneyArgsHigherFirst(a) ==
    IF a.FromAccountID > a.ToAccountID
    THEN [accountID1 |-> a.FromAccountID, amount1 |-> -a.Amount,
          accountID2 |-> a.ToAccountID,   amount2 |-> a.Amount]
    ELSE [accountID1 |-> a.ToAccountID,   amount1 |-> a.Amount,
          accountID2 |-> a.FromAccountID, amount2 |-> -a.Amount]

\* the arguments TransferTx passes to addMoney: lower account id first
addMoneyArgs(a) ==
    IF a.FromAccountID < a.ToAccountID
    THEN [accountID1 |-> a.FromAccountID, amount1 |-> -a.Amount,
          accountID2 |-> a.ToAccountID,   amount2 |-> a.Amount]
    ELSE [accountID1 |-> a.ToAccountID,   amount1 |-> a.Amount,
          accountID2 |-> a.FromAccountID, amount2 |-> -a.Amount]

\* result.X, result.Y, err = addMoney(...): where the two returned rows go
AssignAccounts(a, res, acc1, acc2) ==
    IF a.FromAccountID < a.ToAccountID
    THEN [res EXCEPT !.FromAccount = acc1, !.ToAccount = acc2]
    ELSE [res EXCEPT !.ToAccount = acc1, !.FromAccount = acc2]

\* what the callback returns after the addMoney call, given addMoney's err
CallbackReturn(e) == Nil

(* ------------------------------ execTx -------------------------------- *)

\* an execTx that commits even when the callback failed
execTxOpAlwaysCommit(e) == "Commit"

\* how execTx ends the transaction, given the callback's return value
execTxOp(e) == IF e # Nil THEN "Rollback" ELSE "Commit"

\* fmt.Errorf("tx err: %v, rb err: %v", err, rbErr)
Errorf(e, rbErr) == "tx err: " \o e \o ", rb err: " \o rbErr

\* the errors tx.Rollback can return
RollbackErrors == {"rollback_err", "conn_closed"}

\* an execTx that reports only the outcome of the statement that ended the
\* transaction
execTxReturnEndOnly(e, endErr) == endErr

\* an execTx that drops the rollback's error
execTxReturnCallbackOnly(e, endErr) == IF e # Nil THEN e ELSE endErr

\* an execTx that returns the callback's error and drops the error of the
\* statement that ends the transaction
execTxReturnDropsEnd(e, endErr) == e

\* what execTx returns, given the callback's return value and the error of
\* the Rollback or Commit it issued
execTxReturn(e, endErr) ==
    IF e # Nil
    THEN IF endErr # Nil THEN Errorf(e, endErr) ELSE e
    ELSE endErr

\* the record execTx's statement op leaves in issued, endErr being its error
Issue(t, op, endErr) ==
    [issued EXCEPT ![t] = Append(@, [op |-> op, err |-> endErr])]

(* ------------------------------ the store ----------------------------- *)

\* UPDATE users SET is_email_verified = TRUE for the usernames in names
SetVerified(rows, names) ==
    {IF r.username \in names THEN [r EXCEPT !.is_email_verified = TRUE] ELSE r :
        r \in rows}

\* UPDATE verify_emails SET is_used = TRUE for the rows whose id is in ids
SetUsed(rows, ids) ==
    {IF r.id \in ids THEN [r EXCEPT !.is_used = TRUE] ELSE r : r \in rows}

\* an additive update that stops at a balance of zero
AddAccountBalanceFloored(t, id, amount) ==
    [id |-> id,
     balance |-> IF balance[id] + pend[t].delta[id] + amount < 0 THEN 0
                 ELSE balance[id] + pend[t].delta[id] + amount]

\* UPDATE accounts SET balance = balance + amount WHERE id = ... RETURNING *
\* as seen by call t, which holds the row lock
AddAccountBalance(t, id, amount) ==
    [id |-> id, balance |-> balance[id] + pend[t].delta[id] + amount]

RowFree(t, id) == lock[id] \in {0, t}

ReleaseLocks(t) == [a \in Accounts |-> IF lock[a] = t THEN 0 ELSE lock[a]]

(* ------------------------------- Init --------------------------------- *)

InitWith(workloads) ==
    /\ balance = [a \in Accounts |-> Balance0(a)]
    /\ transfers = {}
    /\ entries = {}
    /\ lock = [a \in Accounts |-> 0]
    /\ arg \in workloads
    /\ pc = [t \in Txs |-> IF arg[t] = NoCall THEN "Off" ELSE "Begin"]
    /\ pend = [t \in Txs |-> NoWrites]
    /\ failed = [t \in Txs |-> FALSE]
    /\ err = [t \in Txs |-> Nil]
    /\ fnErr = [t \in Txs |-> Nil]
    /\ account1 = [t \in Txs |-> ZeroAccount]
    /\ result = [t \in Txs |-> ZeroResult]
    /\ ret = [t \in Txs |-> Nil]
    /\ applied = [t \in Txs |-> ZeroDelta]
    /\ issued = [t \in Txs |-> <<>>]
    /\ users = {}
    /\ verifyEmails = {}
    /\ tasks = <<>>
    /\ code = [t \in Txs |-> NoCode]
    /\ called = [t \in Txs |-> 0]
    /\ wrote = [t \in Txs |-> NoUpdates]
    /\ events = <<>>
    /\ mails = {}
    /\ running = [w \in Workers |-> 0]
    /\ gets = <<>>
    /\ logged = <<>>
    /\ now = 0
    /\ cancelled = [t \in Txs |-> FALSE]

Init == InitWith(PairWorkloads)

(* ------------------------------ actions ------------------------------- *)

\* a store that does not look at the context of a statement
ContextIgnored(t) == TRUE

\* Every statement of a call goes to the store with the call's context, and so
\* do tx.Rollback and tx.Commit: once the context is cancelled none of them
\* succeeds.
ContextOK(t) == ~cancelled[t]

\* execTx: connPool.Begin succeeds
Begin(t) ==
    /\ pc[t] = "Begin"
    /\ pc' = [pc EXCEPT ![t] = Callback(arg[t])]
    /\ UNCHANGED <<balance, transfers, entries, lock, arg, pend, failed, err,
                   fnErr, account1, result, ret, applied, issued>>
    /\ UNCHANGED <<tableVars, frontVars>>

\* execTx: connPool.Begin fails; execTx returns the error, fn is never called
BeginFail(t) ==
    /\ pc[t] = "Begin"
    /\ pc' = [pc EXCEPT ![t] = "Done"]
    /\ ret' = [ret EXCEPT ![t] = "begin_err"]
    /\ UNCHANGED <<balance, transfers, entries, lock, arg, pend, failed, err,
                   fnErr, account1, result, applied, issued>>
    /\ UNCHANGED <<tableVars, frontVars>>

\* q.CreateTransfer succeeds
CreateTransfer(t) ==
    /\ pc[t] = "CreateTransfer"
    /\ ContextOK(t)
    /\ pend' = [pend EXCEPT ![t].transfers = {TransferRow(t, arg[t])}]
    /\ result' = [result EXCEPT ![t].Transfer = {TransferRow(t, arg[t])}]
    /\ pc' = [pc EXCEPT ![t] = "CreateFromEntry"]
    /\ UNCHANGED <<balance, transfers, entries, lock, arg, failed, err,
                   fnErr, account1, ret, applied, issued>>
    /\ UNCHANGED <<tableVars, frontVars>>

\* q.CreateEntry for the from-account succeeds
CreateFromEntry(t) ==
    /\ pc[t] = "CreateFromEntry"
    /\ ContextOK(t)
    /\ pend' = [pend EXCEPT ![t].entries = @ \cup {FromEntryRow(t, arg[t])}]
    /\ result' = [result EXCEPT ![t].FromEntry = {FromEntryRow(t, arg[t])}]
    /\ pc' = [pc EXCEPT ![t] = "CreateToEntry"]
    /\ UNCHANGED <<balance, transfers, entries, lock, arg, failed, err,
                   fnErr, account1, ret, applied, issued>>
    /\ UNCHANGED <<tableVars, frontVars>>

\* q.CreateEntry for the to-account succeeds
CreateToEntry(t) ==
    /\ pc[t] = "CreateToEntry"
    /\ ContextOK(t)
    /\ pend' = [pend EXCEPT ![t].entries = @ \cup {ToEntryRow(t, arg[t])}]
    /\ result' = [result EXCEPT ![t].ToEntry = {ToEntryRow(t, arg[t])}]
    /\ pc' = [pc EXCEPT ![t] = "AddBalance1"]
    /\ UNCHANGED <<balance, transfers, entries, lock, arg, failed, err,
                   fnErr, account1, ret, applied, issued>>
    /\ UNCHANGED <<tableVars, frontVars>>

\* one of the three inserts fails: the callback returns err at once.
\* aborts: whether the failed statement put the transaction in the failed
\* state. A store error does (a later Commit then fails and rolls back); an
\* error raised on the client side of the statement, such as no row returned,
\* does not, and the transaction can still commit. Every failing statement
\* below may fail either way.
InsertFail(t, aborts) ==
    /\ pc[t] \in {"CreateTransfer", "CreateFromEntry", "CreateToEntry"}
    /\ err' = [err EXCEPT ![t] = "insert_err"]
    /\ fnErr' = [fnErr EXCEPT ![t] = "insert_err"]
    /\ failed' = [failed EXCEPT ![t] = aborts]
    /\ pc' = [pc EXCEPT ![t] = "End"]
    /\ UNCHANGED <<balance, transfers, entries, lock, arg, pend,
                   account1, result, ret, applied, issued>>
    /\ UNCHANGED <<tableVars, frontVars>>

\* addMoney: the first q.AddAccountBalance succeeds (it waits for the row lock)
AddBalance1(t) ==
    LET m == addMoneyArgs(arg[t]) IN
    /\ pc[t] = "AddBalance1"
    /\ ContextOK(t)
    /\ RowFree(t, m.accountID1)
    /\ lock' = [lock EXCEPT ![m.accountID1] = t]
    /\ account1' = [account1 EXCEPT ![t] = AddAccountBalance(t, m.accountID1, m.amount1)]
    /\ pend' = [pend EXCEPT ![t].delta[m.accountID1] = @ + m.amount1]
    /\ pc' = [pc EXCEPT ![t] = "AddBalance2"]
    /\ UNCHANGED <<balance, transfers, entries, arg, failed, err, fnErr,
                   result, ret, applied, issued>>
    /\ UNCHANGED <<tableVars, frontVars>>

\* addMoney: the first q.AddAccountBalance fails; addMoney returns zero rows
\* and the error, TransferTx assigns them and the callback returns
AddBalance1Fail(t, aborts) ==
    /\ pc[t] = "AddBalance1"
    /\ err' = [err EXCEPT ![t] = "balance_err"]
    /\ result' = [result EXCEPT ![t] = AssignAccounts(arg[t], @, ZeroAccount, ZeroAccount)]
    /\ fnErr' = [fnErr EXCEPT ![t] = CallbackReturn("balance_err")]
    /\ failed' = [failed EXCEPT ![t] = aborts]
    /\ pc' = [pc EXCEPT ![t] = "End"]
    /\ UNCHANGED <<balance, transfers, entries, lock, arg, pend, account1,
                   ret, applied, issued>>
    /\ UNCHANGED <<tableVars, frontVars>>

\* addMoney: the second q.AddAccountBalance succeeds; the callback returns
AddBalance2(t) ==
    LET m == addMoneyArgs(arg[t])
        account2 == AddAccountBalance(t, m.accountID2, m.amount2) IN
    /\ pc[t] = "AddBalance2"
    /\ ContextOK(t)
    /\ RowFree(t, m.accountID2)
    /\ lock' = [lock EXCEPT ![m.accountID2] = t]
    /\ pend' = [pend EXCEPT ![t].delta[m.accountID2] = @ + m.amount2]
    /\ result' = [result EXCEPT ![t] = AssignAccounts(arg[t], @, account1[t], account2)]
    /\ fnErr' = [fnErr EXCEPT ![t] = CallbackReturn(Nil)]
    /\ pc' = [pc EXCEPT ![t] = "End"]
    /\ UNCHANGED <<balance, transfers, entries, arg, failed, err, account1,
                   ret, applied, issued>>
    /\ UNCHANGED <<tableVars, frontVars>>

\* addMoney: the second q.AddAccountBalance fails; account2 is the zero row
AddBalance2Fail(t, aborts) ==
    /\ pc[t] = "AddBalance2"
    /\ err' = [err EXCEPT ![t] = "balance_err"]
    /\ result' = [result EXCEPT ![t] = AssignAccounts(arg[t], @, account1[t], ZeroAccount)]
    /\ fnErr' = [fnErr EXCEPT ![t] = CallbackReturn("balance_err")]
    /\ failed' = [failed EXCEPT ![t] = aborts]
    /\ pc' = [pc EXCEPT ![t] = "End"]
    /\ UNCHANGED <<balance, transfers, entries, lock, arg, pend, account1,
                   ret, applied, issued>>
    /\ UNCHANGED <<tableVars, frontVars>>

\* the transaction ends without its writes: they are dropped, locks released;
\* execTx returns e and the locals of the call go out of scope
Discard(t, e) ==
    /\ lock' = ReleaseLocks(t)
    /\ pend' = [pend EXCEPT ![t] = NoWrites]
    /\ ret' = [ret EXCEPT ![t] = e]
    /\ pc' = [pc EXCEPT ![t] = "Done"]
    /\ failed' = [failed EXCEPT ![t] = FALSE]
    /\ fnErr' = [fnErr EXCEPT ![t] = Nil]
    /\ account1' = [account1 EXCEPT ![t] = ZeroAccount]
    /\ UNCHANGED <<balance, transfers, entries, arg, err, result, applied>>
    /\ UNCHANGED tableVars

\* execTx: fn returned an error, tx.Rollback succeeds
Rollback(t) ==
    /\ pc[t] = "End"
    /\ ContextOK(t)
    /\ execTxOp(fnErr[t]) = "Rollback"
    /\ Discard(t, execTxReturn(fnErr[t], Nil))
    /\ issued' = Issue(t, execTxOp(fnErr[t]), Nil)
    /\ UNCHANGED frontVars

\* execTx: fn returned an error and tx.Rollback fails too
RollbackFail(t) ==
    /\ pc[t] = "End"
    /\ execTxOp(fnErr[t]) = "Rollback"
    /\ \E rbErr \in RollbackErrors :
           /\ Discard(t, execTxReturn(fnErr[t], rbErr))
           /\ issued' = Issue(t, execTxOp(fnErr[t]), rbErr)
    /\ UNCHANGED frontVars

\* execTx: fn returned nil, tx.Commit succeeds: the writes become durable
Commit(t) ==
    /\ pc[t] = "End"
    /\ ContextOK(t)
    /\ execTxOp(fnErr[t]) = "Commit"
    /\ ~failed[t]
    /\ balance' = [a \in Accounts |-> balance[a] + pend[t].delta[a]]
    /\ transfers' = transfers \cup pend[t].transfers
    /\ entries' = entries \cup pend[t].entries
    /\ applied' = [applied EXCEPT ![t] = pend[t].delta]
    /\ users' = SetVerified(users, pend[t].verified) \cup pend[t].users
    /\ verifyEmails' = SetUsed(verifyEmails, pend[t].used)
    /\ wrote' = [wrote EXCEPT ![t] = [used |-> pend[t].used, verified |-> pend[t].verified]]
    /\ issued' = Issue(t, execTxOp(fnErr[t]), Nil)
    /\ UNCHANGED frontVars
    /\ lock' = ReleaseLocks(t)
    /\ pend' = [pend EXCEPT ![t] = NoWrites]
    /\ ret' = [ret EXCEPT ![t] = execTxReturn(fnErr[t], Nil)]
    /\ pc' = [pc EXCEPT ![t] = "Done"]
    /\ failed' = [failed EXCEPT ![t] = FALSE]
    /\ fnErr' = [fnErr EXCEPT ![t] = Nil]
    /\ account1' = [account1 EXCEPT ![t] = ZeroAccount]
    /\ UNCHANGED <<arg, err, result>>

\* execTx: fn returned nil, tx.Commit fails (the transaction is in the failed
\* state, or the connection is lost): nothing becomes durable
CommitFail(t) ==
    /\ pc[t] = "End"
    /\ execTxOp(fnErr[t]) = "Commit"
    /\ Discard(t, execTxReturn(fnErr[t], "commit_err"))
    /\ issued' = Issue(t, execTxOp(fnErr[t]), "commit_err")
    /\ UNCHANGED frontVars

Next ==
    \E t \in Txs :
        \/ Begin(t)
        \/ BeginFail(t)
        \/ CreateTransfer(t)
        \/ CreateFromEntry(t)
        \/ CreateToEntry(t)
        \/ \E aborts \in BOOLEAN : InsertFail(t, aborts)
        \/ AddBalance1(t)
        \/ \E aborts \in BOOLEAN : AddBalance1Fail(t, aborts)
        \/ AddBalance2(t)
        \/ \E aborts \in BOOLEAN : AddBalance2Fail(t, aborts)
        \/ Rollback(t)
        \/ RollbackFail(t)
        \/ Commit(t)
        \/ CommitFail(t)

Spec == Init /\ [][Next]_vars

\* the steps of call t when no statement and no Begin or Commit fails
StepOK(t) ==
    \/ Begin(t)
    \/ CreateTransfer(t)
    \/ CreateFromEntry(t)
    \/ CreateToEntry(t)
    \/ AddBalance1(t)
    \/ AddBalance2(t)
    \/ Commit(t)

NextOK == \E t \in Txs : StepOK(t)

\* The calls run in goroutines of their own and the store grants a free row
\* lock to a waiting statement: a call whose next step stays possible takes it.
LiveSpec == Init /\ [][NextOK]_vars /\ \A t \in Txs : WF_vars(StepOK(t))

(* ------------------------- derived notions ---------------------------- *)

Active == {t \in Txs : arg[t] # NoCall}

Returned(t) == pc[t] = "Done"

TransfersOf(t) == {r \in transfers : r.call = t}

EntriesOf(t) == {e \in entries : e.call = t}

EntriesOn(a) == {e \in entries : e.account_id = a}

RECURSIVE SumAmounts(_)
SumAmounts(S) ==
    IF S = {} THEN 0
    ELSE LET e == CHOOSE x \in S : TRUE IN e.amount + SumAmounts(S \ {e})

Lower(a) == IF a.FromAccountID < a.ToAccountID THEN a.FromAccountID ELSE a.ToAccountID

Higher(a) == IF a.FromAccountID < a.ToAccountID THEN a.ToAccountID ELSE a.FromAccountID

(* ------------------------------ claims -------------------------------- *)

\* C1: if any step of TransferTx fails (one of the three inserts or one of the
\* two balance updates), TransferTx returns an error and no Transfer row, Entry
\* row or balance change of that call is persisted.
C1_FailedStepAborts ==
    \A t \in Active :
        (Returned(t) /\ err[t] # Nil) =>
            /\ ret[t] # Nil
            /\ TransfersOf(t) = {}
            /\ EntriesOf(t) = {}
            /\ applied[t] = ZeroDelta

\* C2: once all the concurrent calls of amount a between X and Y have returned
\* without error, balance(X) + balance(Y) is what it was before and each
\* balance differs from its initial value by a multiple of a.
C2_BalanceConservation ==
    (\A t \in Active : Returned(t) /\ ret[t] = Nil) =>
        /\ balance[X] + balance[Y] = Balance0(X) + Balance0(Y)
        /\ \A a \in {X, Y} : (balance[a] - Balance0(a)) % arg[1].Amount = 0

\* C4: in a TransferTx with different accounts, the balance update (row lock)
\* of the lower account id is performed before that of the higher id, whether
\* the lower id is the sender or the receiver.
C4_LowerIdFirst ==
    \A t \in Active :
        (arg[t].FromAccountID # arg[t].ToAccountID /\ lock[Higher(arg[t])] = t) =>
            /\ lock[Lower(arg[t])] = t
            /\ pend[t].delta[Lower(arg[t])] # 0

\* a call whose receiver has the lower id has updated the receiver and not
\* yet the sender
C4_Witness ==
    \E t \in Active :
        /\ arg[t].ToAccountID < arg[t].FromAccountID
        /\ pc[t] = "AddBalance2"
        /\ lock[arg[t].ToAccountID] = t
        /\ lock[arg[t].FromAccountID] # t

\* C5: whenever TransferTx returns an error, whatever the point of failure,
\* the call changed neither the sum of the two accounts' balances nor the
\* number of Transfer and Entry rows.
C5_ErrorLeavesNoTrace ==
    \A t \in Active :
        (Returned(t) /\ ret[t] # Nil) =>
            /\ applied[t][arg[t].FromAccountID] + applied[t][arg[t].ToAccountID] = 0
            /\ applied[t] = ZeroDelta
            /\ TransfersOf(t) = {}
            /\ EntriesOf(t) = {}

\* a call returned an error after its three inserts and its first balance
\* update had been made, while another call committed
C5_Witness ==
    \E t, u \in Active :
        /\ Returned(t)
        /\ ret[t] # Nil
        /\ err[t] = "balance_err"
        /\ {result[t].FromAccount, result[t].ToAccount} # {ZeroAccount}
        /\ Returned(u)
        /\ TransfersOf(u) # {}

\* C6: every committed Transfer has exactly two Entries of the same call, one
\* on the from-account of amount -amount and one on the to-account of amount
\* +amount.
C6_EntryPairing ==
    \A tr \in transfers :
        LET es == EntriesOf(tr.call) IN
        /\ Cardinality(es) = 2
        /\ \E e1, e2 \in es :
              /\ e1 # e2
              /\ e1.account_id = tr.from_account_id
              /\ e1.amount = -tr.amount
              /\ e2.account_id = tr.to_account_id
              /\ e2.amount = tr.amount
              /\ e1.amount + e2.amount = 0

\* two transfers in opposite directions are committed
C6_Witness ==
    \E tr1, tr2 \in transfers :
        /\ tr1.from_account_id = tr2.to_account_id
        /\ tr1.to_account_id = tr2.from_account_id
        /\ tr1.from_account_id < tr1.to_account_id

\* C7: in every committed state, each account's balance is its initial balance
\* plus the sum of the amounts of the committed Entries on that account.
C7_LedgerMatchesBalance ==
    \A a \in Accounts : balance[a] = Balance0(a) + SumAmounts(EntriesOn(a))

\* the row the next statement of call t has to lock, 0 when it needs none
NextRow(t) ==
    IF pc[t] = "AddBalance1" THEN addMoneyArgs(arg[t]).accountID1
    ELSE IF pc[t] = "AddBalance2" THEN addMoneyArgs(arg[t]).accountID2
    ELSE 0

\* call t waits for a row lock that call u holds
WaitsFor(t, u) == t # u /\ NextRow(t) # 0 /\ lock[NextRow(t)] = u

WaitCycle == \E t, u \in Active : WaitsFor(t, u) /\ WaitsFor(u, t)

AllCompleted == \A t \in Active : Returned(t) /\ ret[t] = Nil

\* C3: for all interleavings of concurrent calls between the same two accounts
\* in either direction, no two calls ever hold a row lock each that the other
\* waits for, and every call eventually completes without error.
C3_DeadlockFree == [](~WaitCycle) /\ <>AllCompleted

\* a call waits for the row lock held by a call in the opposite direction
C3_Witness ==
    \E t, u \in Active :
        /\ arg[t].FromAccountID = arg[u].ToAccountID
        /\ arg[t].ToAccountID = arg[u].FromAccountID
        /\ WaitsFor(t, u)

\* C8: after n concurrent calls of amount a from X to Y have all returned
\* without error, balance(X) = X0 - n*a, balance(Y) = Y0 + n*a, and exactly n
\* Transfer rows and 2n Entry rows (n pairs of -a/+a) were created.
C8_FinalState ==
    LET n == Cardinality(Active)
        a == arg[1].Amount IN
    (\A t \in Active : /\ arg[t].FromAccountID = X
                       /\ arg[t].ToAccountID = Y
                       /\ Returned(t)
                       /\ ret[t] = Nil) =>
        /\ balance[X] = Balance0(X) - n * a
        /\ balance[Y] = Balance0(Y) + n * a
        /\ Cardinality(transfers) = n
        /\ Cardinality(entries) = 2 * n
        /\ \A t \in Active :
              {e.amount : e \in EntriesOf(t)} = {-a, a}

\* the number k of transfers that the accounts returned by call t show
Steps(t) == (Balance0(X) - result[t].FromAccount.balance) \div arg[t].Amount

\* C9: for n concurrent calls of amount a from X to Y, the accounts each call
\* returns are a consistent snapshot: X0 - FromAccount.balance =
\* ToAccount.balance - Y0 = k*a with 1 <= k <= n, and the k of the calls are
\* pairwise distinct.
C9_SerializedSnapshots ==
    LET n == Cardinality(Active) IN
    (\A t \in Active : arg[t].FromAccountID = X /\ arg[t].ToAccountID = Y) =>
        /\ \A t \in Active :
              (Returned(t) /\ ret[t] = Nil) =>
                  /\ Balance0(X) - result[t].FromAccount.balance
                        = result[t].ToAccount.balance - Balance0(Y)
                  /\ Balance0(X) - result[t].FromAccount.balance
                        = Steps(t) * arg[t].Amount
                  /\ Steps(t) >= 1
                  /\ Steps(t) <= n
        /\ \A t, u \in Active :
              (t # u /\ Returned(t) /\ ret[t] = Nil /\ Returned(u) /\ ret[u] = Nil)
                  => Steps(t) # Steps(u)

\* C10: a TransferTx with from # to that returns without error, in either
\* direction, returns as FromAccount the updated row of the from-account
\* (balance decreased by amount) and as ToAccount the updated row of the
\* to-account (balance increased by amount).
C10_ResultRows ==
    \A t \in Active :
        (arg[t].FromAccountID # arg[t].ToAccountID /\ Returned(t) /\ ret[t] = Nil) =>
            /\ result[t].FromAccount.id = arg[t].FromAccountID
            /\ result[t].ToAccount.id = arg[t].ToAccountID
            /\ applied[t][arg[t].FromAccountID] = -arg[t].Amount
            /\ applied[t][arg[t].ToAccountID] = arg[t].Amount

(* ------------------------------ execTx -------------------------------- *)

\* execTx returns from call t in this step
ExecTxEnds(t) == pc[t] = "End" /\ pc'[t] = "Done"

\* the step leaves the committed rows and balances of the store as they were
StoreUnchanged == UNCHANGED <<balance, transfers, entries, users, verifyEmails, wrote>>

\* the errors the callback TransferTx passes to execTx can return
CallbackErrors == {"insert_err", "balance_err"}

\* C11: execTx opens a transaction and invokes the callback; when the
\* callback succeeds it commits; when the callback returns an error it rolls
\* back and returns exactly that error (the rollback having succeeded): the
\* error is never turned into success and never followed by a commit.
C11_ExecTxCommitOrRollback ==
    [][\A t \in Txs : ExecTxEnds(t) =>
          IF fnErr[t] = Nil
          THEN /\ Len(issued'[t]) = 1
               /\ issued'[t][1].op = "Commit"
               /\ ret'[t] = issued'[t][1].err
               /\ ret'[t] = Nil =>
                      /\ transfers' = transfers \cup pend[t].transfers
                      /\ entries' = entries \cup pend[t].entries
          ELSE /\ Len(issued'[t]) = 1
               /\ issued'[t][1].op = "Rollback"
               /\ ret'[t] # Nil
               /\ issued'[t][1].err = Nil => ret'[t] = fnErr[t]
               /\ StoreUnchanged]_vars

\* a call returned the error of its callback after a rollback, and another
\* call, whose callback succeeded, committed its rows
C11_Witness ==
    \E t, u \in Active :
        /\ Returned(t)
        /\ ret[t] = "insert_err"
        /\ issued[t] = <<[op |-> "Rollback", err |-> Nil]>>
        /\ Returned(u)
        /\ ret[u] = Nil
        /\ issued[u] = <<[op |-> "Commit", err |-> Nil]>>
        /\ TransfersOf(u) # {}

\* C12: when the callback fails and the rollback fails too, execTx returns
\* one error from which both the callback's error and the rollback's error
\* can be told, and it does not commit.
C12_RollbackFailureReported ==
    [][\A t \in Txs :
          (ExecTxEnds(t) /\ fnErr[t] # Nil /\ issued'[t][1].err # Nil) =>
              /\ ret'[t] # Nil
              /\ {p \in CallbackErrors \X RollbackErrors : Errorf(p[1], p[2]) = ret'[t]}
                    = {<<fnErr[t], issued'[t][1].err>>}
              /\ ret'[t] \notin CallbackErrors \cup RollbackErrors
              /\ \A i \in 1..Len(issued'[t]) : issued'[t][i].op # "Commit"
              /\ StoreUnchanged]_vars

\* a call whose insert failed returned after its rollback failed as well
C12_Witness ==
    \E t \in Active :
        /\ Returned(t)
        /\ err[t] = "insert_err"
        /\ issued[t] = <<[op |-> "Rollback", err |-> "conn_closed"]>>
        /\ ret[t] = Errorf("insert_err", "conn_closed")

(* -------------------- CreateUser RPC and CreateUserTx ------------------ *)

NumUsers == 2
Usernames == 1..NumUsers

\* asynq.MaxRetry(10)
MaxRetry == 10
\* asynq.ProcessIn(10 * time.Second), in seconds
ProcessIn == 10
QueueCritical == "critical"
QueueDefault == "default"
TaskSendVerifyEmail == "task:send_verify_email"

\* a CreateUserRequest: its username and whether its fields pass validation
CreateUserRequests == [Username : Usernames, Valid : BOOLEAN]

\* a users row that was there before any call of the model
ExistingUser(u) == [username |-> u, full_name |-> 0, is_email_verified |-> FALSE, call |-> 0]

\* the row q.CreateUser inserts for call t
UserRow(t, a) ==
    [username |-> a.Username, full_name |-> 0, is_email_verified |-> FALSE, call |-> t]

\* the task DistributeTaskSendVerifyEmail hands to the queue backend for the
\* user of call t, with the options CreateUser's AfterCreate passes
NewTask(t, username) ==
    [type |-> TaskSendVerifyEmail, payload |-> [Username |-> username], call |-> t,
     max_retry |-> MaxRetry, process_in |-> ProcessIn, queue |-> QueueCritical,
     enqueued_at |-> now, state |-> "enqueued", retried |-> 0, last_err |-> Nil]

\* the time from which the processor may take the task (asynq.ProcessIn)
ProcessAt(task) == task.enqueued_at + task.process_in

\* the ErrorHandler has logged nothing about a task
NoReport == [n |-> 0, last |-> Nil]

\* an ErrorHandler that logs the error and the task's type only
ErrorHandlerNoPayload(task, e) ==
    [err |-> e, type |-> task.type, payload |-> [Text |-> ""]]

\* what the processor's ErrorHandler logs when the handler of task returned e
ErrorHandler(task, e) == [err |-> e, type |-> task.type, payload |-> task.payload]

\* the errors DistributeTaskSendVerifyEmail returns
DistributeErrors == {"failed to marshal task payload", "failed to enqueue task"}

\* a callback of CreateUserTx that calls AfterCreate whatever q.CreateUser returned
AfterInsertAlwaysCallback(e) == "AfterCreate"

\* where the callback of CreateUserTx goes after q.CreateUser returned e
AfterInsert(e) == IF e # Nil THEN "End" ELSE "AfterCreate"

\* a CreateUser that maps a unique violation to AlreadyExists and any other
\* error to Internal
CreateUserStatusMapped(e) ==
    IF e = Nil THEN "OK"
    ELSE IF e = "unique_violation" THEN "AlreadyExists"
    ELSE "Internal"

\* the status code of the answer when CreateUserTx returned e: CreateUser
\* returns e itself, which is no gRPC status
CreateUserStatus(e) == IF e = Nil THEN "OK" ELSE "Unknown"

\* a committed users row has the username: the unique constraint rejects an
\* insert of it
UsernameTaken(u) == \E r \in users : r.username = u

\* another transaction has inserted the username and not ended yet: an insert
\* of it waits
UsernamePending(t, u) ==
    \E o \in Txs \ {t} : \E r \in pend[o].users : r.username = u

\* MaxCalls concurrent CreateUser calls
UserWorkloads ==
    {w \in [Txs -> CreateUserRequests \cup {NoCall}] :
        \A t \in Txs : (w[t] # NoCall) <=> (t <= MaxCalls)}

InitUsers ==
    /\ balance = [a \in Accounts |-> Balance0(a)]
    /\ transfers = {}
    /\ entries = {}
    /\ lock = [a \in Accounts |-> 0]
    /\ arg \in UserWorkloads
    /\ pc = [t \in Txs |-> IF arg[t] = NoCall THEN "Off" ELSE "Validate"]
    /\ pend = [t \in Txs |-> NoWrites]
    /\ failed = [t \in Txs |-> FALSE]
    /\ err = [t \in Txs |-> Nil]
    /\ fnErr = [t \in Txs |-> Nil]
    /\ account1 = [t \in Txs |-> ZeroAccount]
    /\ result = [t \in Txs |-> ZeroResult]
    /\ ret = [t \in Txs |-> Nil]
    /\ applied = [t \in Txs |-> ZeroDelta]
    /\ issued = [t \in Txs |-> <<>>]
    /\ users \in {{}, {ExistingUser(1)}}
    /\ verifyEmails = {}
    /\ tasks = <<>>
    /\ code = [t \in Txs |-> NoCode]
    /\ called = [t \in Txs |-> 0]
    /\ wrote = [t \in Txs |-> NoUpdates]
    /\ events = <<>>
    /\ mails = {}
    /\ running = [w \in Workers |-> 0]
    /\ gets = <<>>
    /\ logged = <<>>
    /\ now = 0
    /\ cancelled = [t \in Txs |-> FALSE]

\* the variables of the store's transactions that a step outside execTx leaves
txVars == <<balance, transfers, entries, lock, pend, failed, err, fnErr,
            account1, result, ret, applied, issued>>

\* CreateUser: validateCreateUserRequest finds violations
ValidateFail(t) ==
    /\ pc[t] = "Validate"
    /\ ~arg[t].Valid
    /\ code' = [code EXCEPT ![t] = "InvalidArgument"]
    /\ pc' = [pc EXCEPT ![t] = "Responded"]
    /\ UNCHANGED <<txVars, tableVars, arg, queueVars, called, cancelled>>

\* CreateUser: the request is valid but util.HashPassword fails
HashPasswordFail(t) ==
    /\ pc[t] = "Validate"
    /\ arg[t].Valid
    /\ code' = [code EXCEPT ![t] = "Internal"]
    /\ pc' = [pc EXCEPT ![t] = "Responded"]
    /\ UNCHANGED <<txVars, tableVars, arg, queueVars, called, cancelled>>

\* a CreateUser that goes on to CreateUserTx whatever the validation found
ValidateIgnored(t) ==
    /\ pc[t] = "Validate"
    /\ pc' = [pc EXCEPT ![t] = "Begin"]
    /\ UNCHANGED <<txVars, tableVars, arg, frontVars>>

\* CreateUser: the request is valid, the password is hashed, CreateUserTx is
\* called and calls execTx
Validate(t) ==
    /\ pc[t] = "Validate"
    /\ arg[t].Valid
    /\ pc' = [pc EXCEPT ![t] = "Begin"]
    /\ UNCHANGED <<txVars, tableVars, arg, frontVars>>

\* q.CreateUser succeeds: no committed row has the username, and no
\* uncommitted insert of the same username is in the way
CreateUser(t) ==
    /\ pc[t] = "CreateUser"
    /\ ContextOK(t)
    /\ ~UsernameTaken(arg[t].Username)
    /\ ~UsernamePending(t, arg[t].Username)
    /\ pend' = [pend EXCEPT ![t].users = {UserRow(t, arg[t])}]
    /\ pc' = [pc EXCEPT ![t] = AfterInsert(Nil)]
    /\ UNCHANGED <<balance, transfers, entries, lock, arg, failed, err, fnErr,
                   account1, result, ret, applied, issued>>
    /\ UNCHANGED <<tableVars, frontVars>>

\* q.CreateUser fails: with a unique violation when a committed row has the
\* username, or with any other store error; the callback returns the error
CreateUserFail(t, e) ==
    /\ pc[t] = "CreateUser"
    /\ e = "unique_violation" => UsernameTaken(arg[t].Username)
    /\ err' = [err EXCEPT ![t] = e]
    /\ fnErr' = [fnErr EXCEPT ![t] = e]
    /\ failed' = [failed EXCEPT ![t] = TRUE]
    /\ pc' = [pc EXCEPT ![t] = AfterInsert(e)]
    /\ UNCHANGED <<balance, transfers, entries, lock, arg, pend, account1,
                   result, ret, applied, issued>>
    /\ UNCHANGED <<tableVars, frontVars>>

\* arg.AfterCreate(result.User): DistributeTaskSendVerifyEmail enqueues the
\* task and returns nil, which the callback returns
AfterCreate(t) ==
    /\ pc[t] = "AfterCreate"
    /\ called' = [called EXCEPT ![t] = @ + 1]
    /\ tasks' = Append(tasks, NewTask(t, arg[t].Username))
    /\ events' = Append(events, <<>>)
    /\ gets' = Append(gets, 0)
    /\ logged' = Append(logged, NoReport)
    /\ fnErr' = [fnErr EXCEPT ![t] = Nil]
    /\ pc' = [pc EXCEPT ![t] = "End"]
    /\ UNCHANGED <<balance, transfers, entries, lock, arg, pend, failed, err,
                   account1, result, ret, applied, issued>>
    /\ UNCHANGED <<tableVars, code, mails, running, now, cancelled>>

\* a callback that drops the error of AfterCreate and returns nil
AfterCreateFailDropped(t, e) ==
    /\ pc[t] = "AfterCreate"
    /\ called' = [called EXCEPT ![t] = @ + 1]
    /\ fnErr' = [fnErr EXCEPT ![t] = Nil]
    /\ pc' = [pc EXCEPT ![t] = "End"]
    /\ UNCHANGED <<balance, transfers, entries, lock, arg, pend, failed, err,
                   account1, result, ret, applied, issued>>
    /\ UNCHANGED <<tableVars, queueVars, code, cancelled>>

\* a DistributeTaskSendVerifyEmail whose task is in the queue although it
\* returns the error
AfterCreateFailEnqueued(t, e) ==
    /\ pc[t] = "AfterCreate"
    /\ called' = [called EXCEPT ![t] = @ + 1]
    /\ tasks' = Append(tasks, NewTask(t, arg[t].Username))
    /\ events' = Append(events, <<>>)
    /\ gets' = Append(gets, 0)
    /\ logged' = Append(logged, NoReport)
    /\ fnErr' = [fnErr EXCEPT ![t] = e]
    /\ pc' = [pc EXCEPT ![t] = "End"]
    /\ UNCHANGED <<balance, transfers, entries, lock, arg, pend, failed, err,
                   account1, result, ret, applied, issued>>
    /\ UNCHANGED <<tableVars, code, mails, running, now, cancelled>>

\* arg.AfterCreate(result.User): DistributeTaskSendVerifyEmail fails; no task
\* reaches the queue and the callback returns the error
AfterCreateFail(t, e) ==
    /\ pc[t] = "AfterCreate"
    /\ called' = [called EXCEPT ![t] = @ + 1]
    /\ fnErr' = [fnErr EXCEPT ![t] = e]
    /\ pc' = [pc EXCEPT ![t] = "End"]
    /\ UNCHANGED <<balance, transfers, entries, lock, arg, pend, failed, err,
                   account1, result, ret, applied, issued>>
    /\ UNCHANGED <<tableVars, queueVars, code, cancelled>>

\* CreateUser: CreateUserTx has returned; the error is returned as it is, or
\* the response is built
CreateUserReturn(t) ==
    /\ pc[t] = "Done"
    /\ code' = [code EXCEPT ![t] = CreateUserStatus(ret[t])]
    /\ pc' = [pc EXCEPT ![t] = "Responded"]
    /\ UNCHANGED <<txVars, tableVars, arg, queueVars, called, cancelled>>

NextUsers ==
    \E t \in Txs :
        \/ ValidateFail(t)
        \/ HashPasswordFail(t)
        \/ Validate(t)
        \/ Begin(t)
        \/ BeginFail(t)
        \/ CreateUser(t)
        \/ \E e \in {"unique_violation", "insert_err"} : CreateUserFail(t, e)
        \/ AfterCreate(t)
        \/ \E e \in DistributeErrors : AfterCreateFail(t, e)
        \/ Rollback(t)
        \/ RollbackFail(t)
        \/ Commit(t)
        \/ CommitFail(t)
        \/ CreateUserReturn(t)

UserSpec == InitUsers /\ [][NextUsers]_vars

\* the tasks in the queue that call t's AfterCreate enqueued
TasksBy(t) == {i \in 1..Len(tasks) : tasks[i].call = t}

\* the users rows that call t inserted and committed
UsersBy(t) == {r \in users : r.call = t}

\* CreateUserTx has returned to call t
UserTxReturned(t) == pc[t] \in {"Done", "Responded"} /\ code[t] \notin {"InvalidArgument", "Internal"}

\* C14: CreateUserTx's callback, the enqueue of the verification task, has
\* fired if and only if the user row is durably committed: once CreateUserTx
\* has returned, the call has a task in the queue exactly when its users row
\* is committed.
C14_CallbackIffCommitted ==
    \A t \in Active :
        UserTxReturned(t) => (TasksBy(t) # {} <=> UsersBy(t) # {})

\* AfterCreate is invoked for call t in this step
CallbackInvoked(t) == called'[t] # called[t]

\* C15: the callback of CreateUserTx is invoked inside the unit of work, after
\* the user insert has succeeded and before the commit; when the insert fails
\* (for example on a duplicate username) the callback is never invoked and no
\* task is enqueued.
C15_CallbackInsideTx ==
    /\ [][\A t \in Txs : CallbackInvoked(t) =>
              /\ pend[t].users = {UserRow(t, arg[t])}
              /\ UsersBy(t) = {}
              /\ issued[t] = <<>>
              /\ issued'[t] = <<>>
              /\ err[t] = Nil]_vars
    /\ [](\A t \in Active :
              err[t] \in {"unique_violation", "insert_err"} =>
                  /\ called[t] = 0
                  /\ TasksBy(t) = {})

\* one call's callback has enqueued its task and its row is committed, while
\* another call, for a username that exists, has returned without a callback
C15_Witness ==
    \E t, u \in Active :
        /\ called[t] = 1
        /\ TasksBy(t) # {}
        /\ UsersBy(t) # {}
        /\ err[u] = "unique_violation"
        /\ pc[u] = "Responded"
        /\ called[u] = 0

\* C16: when CreateUserTx fails because the username already exists, the
\* CreateUser RPC answers AlreadyExists, not a generic or internal error, and
\* no verification task is distributed.
C16_DuplicateUsername ==
    \A t \in Active :
        (pc[t] = "Responded" /\ ret[t] = "unique_violation") =>
            /\ code[t] = "AlreadyExists"
            /\ TasksBy(t) = {}

(* ---------------------------- VerifyEmailTx ---------------------------- *)

\* verify_emails rows present before the calls
NumEmails == 2
EmailIds == 1..NumEmails

\* the secret code stored with every record, and another one
SecretCodes == {"secret", "other"}

\* VerifyEmailTxParams
VerifyArgs == [EmailId : 1..(NumEmails + 1), SecretCode : SecretCodes]

\* the zero values of the VerifyEmail and User structs
ZeroVerifyEmail == [id |-> 0, username |-> 0, secret_code |-> "", is_used |-> FALSE]
ZeroUser == [username |-> 0, full_name |-> 0, is_email_verified |-> FALSE, call |-> 0]
ZeroVerifyResult == [User |-> ZeroUser, VerifyEmail |-> ZeroVerifyEmail]

\* the owner of the record with id i
Owner(i) == ((i - 1) % NumUsers) + 1

\* the records before the calls: the one with the highest id is used already
VerifyEmails0 ==
    {[id |-> i, username |-> Owner(i), secret_code |-> "secret",
      is_used |-> (i = NumEmails)] : i \in EmailIds}

\* the committed rows the conditional update of UpdateVerifyEmail matches:
\* the id and the secret code are the given ones and the record is not used
Matching(p) ==
    {r \in verifyEmails :
        r.id = p.ID /\ r.secret_code = p.SecretCode /\ ~r.is_used}

\* another transaction has marked the record used and not ended yet: an
\* update of the record waits
RecordLocked(t, id) == \E o \in Txs \ {t} : id \in pend[o].used

\* another transaction has updated the users row and not ended yet
UserLocked(t, u) == \E o \in Txs \ {t} : u \in pend[o].verified

\* UpdateVerifyEmailParams built by VerifyEmailTx
UpdateVerifyEmailParams(a) == [ID |-> a.EmailId, SecretCode |-> a.SecretCode]

\* what q.UpdateVerifyEmail gives back when no row matches: the driver's
\* no-rows error with the zero row, or the zero row alone
NoRowOutcomes == {"no rows in result set", Nil}

\* the error of the check result.VerifyEmail.ID == 0
InvalidError == "invalid email_id or secret_code"

\* the errors by which VerifyEmailTx reports that no record was consumed
NoMatchErrors == {"no rows in result set", InvalidError}

\* whether the callback of VerifyEmailTx returns at once after
\* q.UpdateVerifyEmail gave error e and row
VerifyStops(e, row) == e # Nil \/ row.id = 0

\* a callback that returns nil when it stops
VerifyCallbackReturnNil(e, row) == Nil

\* what the callback returns when it stops: e, or the invalid error for the
\* zero row
VerifyCallbackReturn(e, row) == IF e # Nil THEN e ELSE InvalidError

\* where the callback is after q.UpdateVerifyEmail gave error e and row
AfterUpdateVerifyEmail(e, row) == IF VerifyStops(e, row) THEN "End" ELSE "UpdateUser"

\* MaxCalls concurrent VerifyEmailTx calls for one record id
VerifyWorkloads ==
    {w \in [Txs -> VerifyArgs \cup {NoCall}] :
        /\ \A t \in Txs : (w[t] # NoCall) <=> (t <= MaxCalls)
        /\ \A t \in Txs : w[t] # NoCall => w[t].EmailId = w[1].EmailId}

InitVerify ==
    /\ balance = [a \in Accounts |-> Balance0(a)]
    /\ transfers = {}
    /\ entries = {}
    /\ lock = [a \in Accounts |-> 0]
    /\ arg \in VerifyWorkloads
    /\ pc = [t \in Txs |-> IF arg[t] = NoCall THEN "Off" ELSE "Begin"]
    /\ pend = [t \in Txs |-> NoWrites]
    /\ failed = [t \in Txs |-> FALSE]
    /\ err = [t \in Txs |-> Nil]
    /\ fnErr = [t \in Txs |-> Nil]
    /\ account1 = [t \in Txs |-> ZeroAccount]
    /\ result = [t \in Txs |-> ZeroVerifyResult]
    /\ ret = [t \in Txs |-> Nil]
    /\ applied = [t \in Txs |-> ZeroDelta]
    /\ issued = [t \in Txs |-> <<>>]
    /\ users = {ExistingUser(u) : u \in Usernames}
    /\ verifyEmails = VerifyEmails0
    /\ tasks = <<>>
    /\ code = [t \in Txs |-> NoCode]
    /\ called = [t \in Txs |-> 0]
    /\ wrote = [t \in Txs |-> NoUpdates]
    /\ events = <<>>
    /\ mails = {}
    /\ running = [w \in Workers |-> 0]
    /\ gets = <<>>
    /\ logged = <<>>
    /\ now = 0
    /\ cancelled = [t \in Txs |-> FALSE]

\* q.UpdateVerifyEmail matches the record and marks it used (it waits while
\* another transaction holds the row)
UpdateVerifyEmail(t) ==
    LET p == UpdateVerifyEmailParams(arg[t]) IN
    /\ pc[t] = "UpdateVerifyEmail"
    /\ ContextOK(t)
    /\ ~RecordLocked(t, p.ID)
    /\ \E r \in Matching(p) :
          LET row == [r EXCEPT !.is_used = TRUE] IN
          /\ pend' = [pend EXCEPT ![t].used = @ \cup {r.id}]
          /\ result' = [result EXCEPT ![t].VerifyEmail = row]
          /\ pc' = [pc EXCEPT ![t] = AfterUpdateVerifyEmail(Nil, row)]
    /\ UNCHANGED <<balance, transfers, entries, lock, arg, failed, err, fnErr,
                   account1, ret, applied, issued>>
    /\ UNCHANGED <<tableVars, frontVars>>

\* q.UpdateVerifyEmail matches no row: unknown id, wrong secret code, or the
\* record is used; the callback returns an error
UpdateVerifyEmailNoRow(t, e) ==
    LET p == UpdateVerifyEmailParams(arg[t]) IN
    /\ pc[t] = "UpdateVerifyEmail"
    /\ ContextOK(t)
    /\ ~RecordLocked(t, p.ID)
    /\ Matching(p) = {}
    /\ err' = [err EXCEPT ![t] = e]
    /\ result' = [result EXCEPT ![t].VerifyEmail = ZeroVerifyEmail]
    /\ fnErr' = [fnErr EXCEPT ![t] = VerifyCallbackReturn(e, ZeroVerifyEmail)]
    /\ pc' = [pc EXCEPT ![t] = AfterUpdateVerifyEmail(e, ZeroVerifyEmail)]
    /\ UNCHANGED <<balance, transfers, entries, lock, arg, pend, failed,
                   account1, ret, applied, issued>>
    /\ UNCHANGED <<tableVars, frontVars>>

\* q.UpdateVerifyEmail fails with a store error
UpdateVerifyEmailFail(t, aborts) ==
    /\ pc[t] = "UpdateVerifyEmail"
    /\ err' = [err EXCEPT ![t] = "update_err"]
    /\ result' = [result EXCEPT ![t].VerifyEmail = ZeroVerifyEmail]
    /\ fnErr' = [fnErr EXCEPT ![t] = VerifyCallbackReturn("update_err", ZeroVerifyEmail)]
    /\ failed' = [failed EXCEPT ![t] = aborts]
    /\ pc' = [pc EXCEPT ![t] = AfterUpdateVerifyEmail("update_err", ZeroVerifyEmail)]
    /\ UNCHANGED <<balance, transfers, entries, lock, arg, pend,
                   account1, ret, applied, issued>>
    /\ UNCHANGED <<tableVars, frontVars>>

\* q.UpdateUser sets is_email_verified of the record's user (it waits while
\* another transaction holds the row); the callback returns nil
UpdateUser(t) ==
    LET u == result[t].VerifyEmail.username IN
    /\ pc[t] = "UpdateUser"
    /\ ContextOK(t)
    /\ ~UserLocked(t, u)
    /\ \E r \in users :
          /\ r.username = u
          /\ result' = [result EXCEPT ![t].User = [r EXCEPT !.is_email_verified = TRUE]]
    /\ pend' = [pend EXCEPT ![t].verified = @ \cup {u}]
    /\ fnErr' = [fnErr EXCEPT ![t] = Nil]
    /\ pc' = [pc EXCEPT ![t] = "End"]
    /\ UNCHANGED <<balance, transfers, entries, lock, arg, failed, err,
                   account1, ret, applied, issued>>
    /\ UNCHANGED <<tableVars, frontVars>>

\* q.UpdateUser fails: a store error, or no users row has the username
UpdateUserFail(t, aborts) ==
    /\ pc[t] = "UpdateUser"
    /\ err' = [err EXCEPT ![t] = "update_user_err"]
    /\ result' = [result EXCEPT ![t].User = ZeroUser]
    /\ fnErr' = [fnErr EXCEPT ![t] = "update_user_err"]
    /\ failed' = [failed EXCEPT ![t] = aborts]
    /\ pc' = [pc EXCEPT ![t] = "End"]
    /\ UNCHANGED <<balance, transfers, entries, lock, arg, pend,
                   account1, ret, applied, issued>>
    /\ UNCHANGED <<tableVars, frontVars>>

NextVerify ==
    \E t \in Txs :
        \/ Begin(t)
        \/ BeginFail(t)
        \/ UpdateVerifyEmail(t)
        \/ \E e \in NoRowOutcomes : UpdateVerifyEmailNoRow(t, e)
        \/ \E aborts \in BOOLEAN : UpdateVerifyEmailFail(t, aborts)
        \/ UpdateUser(t)
        \/ \E aborts \in BOOLEAN : UpdateUserFail(t, aborts)
        \/ Rollback(t)
        \/ RollbackFail(t)
        \/ Commit(t)
        \/ CommitFail(t)

VerifySpec == InitVerify /\ [][NextVerify]_vars

\* the record the calls of the workload name
Target == arg[1].EmailId

\* the calls that present the record's secret code
RightCode == {t \in Active : arg[t].SecretCode = "secret"}

Succeeded == {t \in Active : Returned(t) /\ ret[t] = Nil}

\* the calls whose commit marked the record used, and those whose commit set
\* the verified flag of its owner
Consumers == {t \in Active : Target \in wrote[t].used}
FlagSetters == {t \in Active : Owner(Target) \in wrote[t].verified}

\* C17: a VerifyEmail record is successfully consumed at most once: of the
\* concurrent VerifyEmailTx calls with the same id and the correct code,
\* exactly one returns success, all others return the not-found/invalid
\* error, and the user's verified flag is set by exactly one of them.
C17_ConsumedOnce ==
    /\ Cardinality(Succeeded) <= 1
    /\ Cardinality(Consumers) <= 1
    /\ Cardinality(FlagSetters) <= 1
    /\ Consumers = FlagSetters
    /\ ( /\ [id |-> Target, username |-> Owner(Target),
              secret_code |-> "secret", is_used |-> FALSE] \in VerifyEmails0
         /\ RightCode # {}
         /\ \A t \in RightCode :
                Returned(t) /\ ret[t] \in {Nil} \cup NoMatchErrors )
      => /\ Cardinality(Succeeded) = 1
         /\ Succeeded \subseteq RightCode
         /\ \A t \in RightCode \ Succeeded : ret[t] \in NoMatchErrors
         /\ FlagSetters = Succeeded
         /\ \E r \in users : r.username = Owner(Target) /\ r.is_email_verified
         /\ \E r \in verifyEmails : r.id = Target /\ r.is_used

\* two calls presented the correct code of the same unused record: one has
\* returned success, the other the not-found/invalid error
C17_Witness ==
    \E t, u \in RightCode :
        /\ Cardinality(RightCode) = MaxCalls
        /\ Returned(t)
        /\ ret[t] = Nil
        /\ Returned(u)
        /\ ret[u] \in NoMatchErrors
        /\ wrote[t].used = {Target}

\* q.UpdateVerifyEmail matched no row in call t, whose transaction is at its
\* end or has ended
NoRowMatched(t) ==
    /\ pc[t] \in {"End", "Done"}
    /\ result[t].VerifyEmail = ZeroVerifyEmail
    /\ err[t] \in NoRowOutcomes
    /\ pc[t] = "Done" => issued[t] # <<>>

\* C18: when the conditional update of VerifyEmailTx matches no row (unknown
\* id, wrong secret code, or record already consumed), the transaction aborts
\* with an error, the user's verified flag is left unchanged and no
\* VerifyEmail record changes.
C18_NoMatchAborts ==
    /\ [](\A t \in Active :
              (NoRowMatched(t) /\ Returned(t)) =>
                  /\ ret[t] # Nil
                  /\ Len(issued[t]) = 1
                  /\ issued[t][1].op = "Rollback"
                  /\ wrote[t] = NoUpdates)
    /\ [][\A t \in Active :
              (NoRowMatched(t) /\ ExecTxEnds(t)) => StoreUnchanged]_vars

\* a call with the wrong code has returned the not-found/invalid error and
\* left the record to the call that consumed it
C18_Witness ==
    \E t \in Active :
        /\ arg[t].SecretCode = "other"
        /\ NoRowMatched(t)
        /\ Returned(t)
        /\ ret[t] \in NoMatchErrors
        /\ \E u \in Active : Returned(u) /\ ret[u] = Nil /\ Consumers = {u}

(* ----------------------------- isolation ------------------------------ *)

\* the balance changes of a whole TransferTx with parameters a
FullDelta(a) ==
    [x \in Accounts |->
        (IF x = a.ToAccountID THEN a.Amount ELSE 0)
      - (IF x = a.FromAccountID THEN a.Amount ELSE 0)]

\* the committed state shows nothing of call t's unit of work
NoneVisible(t) ==
    /\ TransfersOf(t) = {}
    /\ EntriesOf(t) = {}
    /\ applied[t] = ZeroDelta
    /\ UsersBy(t) = {}
    /\ wrote[t] = NoUpdates

\* the committed state shows the whole unit of work of call t
AllVisible(t) ==
    IF Callback(arg[t]) = "CreateTransfer"
    THEN /\ TransfersOf(t) = {TransferRow(t, arg[t])}
         /\ EntriesOf(t) = {FromEntryRow(t, arg[t]), ToEntryRow(t, arg[t])}
         /\ applied[t] = FullDelta(arg[t])
    ELSE IF Callback(arg[t]) = "CreateUser"
    THEN UsersBy(t) = {UserRow(t, arg[t])}
    ELSE \E r \in VerifyEmails0 :
            /\ r.id = arg[t].EmailId
            /\ wrote[t] = [used |-> {r.id}, verified |-> {r.username}]

\* C13: no transaction observes a partially applied unit of work of another:
\* at every point of every interleaving the committed state, which is what a
\* concurrent reader sees, holds either none or all of the rows and balance
\* changes of each TransferTx, CreateUserTx and VerifyEmailTx.
C13_NoPartialUnitOfWork ==
    \A t \in Active : NoneVisible(t) \/ AllVisible(t)

(* --------------------------- task processor --------------------------- *)

\* tasks in the queue when the processor starts
NumTasks == 1

\* asynq.SkipRetry
SkipRetry == "skip retry for the task"

\* fmt.Errorf(msg + ": %w", e)
Wrap(msg, e) == msg \o ": " \o e

HandlerMessages ==
    {"failed to unmarshal payload", "failed to get user",
     "failed to create verify email", "failed to send verify email"}

\* errors.Is(e, asynq.SkipRetry) for an error the handler returned
IsSkipRetry(e) == \E m \in HandlerMessages : e = Wrap(m, SkipRetry)

\* what ProcessTaskSendVerifyEmail returns at each of its failure points
\* a handler that returns json.Unmarshal's error as it is
UnmarshalErrorRetryable == Wrap("failed to unmarshal payload", "invalid character")

UnmarshalError == Wrap("failed to unmarshal payload", SkipRetry)
GetUserError(e) == Wrap("failed to get user", e)
CreateVerifyEmailError(e) == Wrap("failed to create verify email", e)

\* a handler that marks a failure of the notifier as not retryable
SendEmailErrorSkipRetry(e) == Wrap("failed to send verify email", SkipRetry)

SendEmailError(e) == Wrap("failed to send verify email", e)

\* a payload that json.Unmarshal rejects
Malformed == [Text |-> "not json"]

\* whether json.Unmarshal(task.Payload(), &payload) succeeds
Unmarshals(payload) == "Username" \in DOMAIN payload

\* the payloads of the tasks in the queue: for the user the store holds, for
\* a user it does not hold, and one that is not a PayloadSendVerifyEmail
Payloads == {[Username |-> u] : u \in {1, NumUsers}} \cup {Malformed}

\* what the processor makes of a task whose handler returned e: a task is
\* retried while it has been retried fewer than max_retry times, unless the
\* error wraps SkipRetry
Outcome(task, e) ==
    IF e = Nil THEN "succeeded"
    ELSE IF IsSkipRetry(e) \/ task.retried >= task.max_retry THEN "failed_permanent"
    ELSE "failed_retry"

\* a processor that does not put a failed task back into the queue
HandledNotRequeued(task, e) ==
    IF Outcome(task, e) = "failed_retry"
    THEN [task EXCEPT !.retried = @ + 1, !.last_err = e]
    ELSE [task EXCEPT !.state = Outcome(task, e), !.last_err = e]

\* the task after its handler returned e
Handled(task, e) ==
    IF Outcome(task, e) = "failed_retry"
    THEN [task EXCEPT !.state = "enqueued", !.retried = @ + 1, !.last_err = e]
    ELSE [task EXCEPT !.state = Outcome(task, e), !.last_err = e]

\* a handler that creates one record per user and uses it again on a retry
NewVerifyEmailReused(username) ==
    [id |-> IF \E r \in verifyEmails : r.username = username
            THEN (CHOOSE r \in verifyEmails : r.username = username).id
            ELSE Cardinality(verifyEmails) + 1,
     username |-> username, secret_code |-> "secret", is_used |-> FALSE]

\* the row processor.store.CreateVerifyEmail inserts for the user
NewVerifyEmail(username) ==
    [id |-> Cardinality(verifyEmails) + 1, username |-> username,
     secret_code |-> "secret", is_used |-> FALSE]

\* the queues the processor can start with
TaskQueues ==
    {q \in [1..NumTasks -> Payloads] : TRUE}

InitTasks ==
    /\ balance = [a \in Accounts |-> Balance0(a)]
    /\ transfers = {}
    /\ entries = {}
    /\ lock = [a \in Accounts |-> 0]
    /\ arg = [t \in Txs |-> NoCall]
    /\ pc = [t \in Txs |-> "Off"]
    /\ pend = [t \in Txs |-> NoWrites]
    /\ failed = [t \in Txs |-> FALSE]
    /\ err = [t \in Txs |-> Nil]
    /\ fnErr = [t \in Txs |-> Nil]
    /\ account1 = [t \in Txs |-> ZeroAccount]
    /\ result = [t \in Txs |-> ZeroResult]
    /\ ret = [t \in Txs |-> Nil]
    /\ applied = [t \in Txs |-> ZeroDelta]
    /\ issued = [t \in Txs |-> <<>>]
    /\ users = {ExistingUser(1)}
    /\ verifyEmails = {}
    /\ now = ProcessIn
    /\ \E q \in TaskQueues :
          tasks = [i \in 1..NumTasks |->
                      [NewTask(0, 0) EXCEPT !.payload = q[i], !.enqueued_at = 0]]
    /\ code = [t \in Txs |-> NoCode]
    /\ called = [t \in Txs |-> 0]
    /\ wrote = [t \in Txs |-> NoUpdates]
    /\ events = [i \in 1..NumTasks |-> <<>>]
    /\ mails = {}
    /\ running = [w \in Workers |-> 0]
    /\ gets = [i \in 1..NumTasks |-> 0]
    /\ logged = [i \in 1..NumTasks |-> NoReport]
    /\ cancelled = [t \in Txs |-> FALSE]

\* what a step of the processor leaves as it is
callVars == <<txVars, pc, arg, code, called, users, wrote, cancelled>>

\* a queue that also hands out a task another worker has in progress
DequeueInProgress(w) ==
    /\ running[w] = 0
    /\ \E i \in 1..Len(tasks) :
          /\ tasks[i].state \in {"enqueued", "in_progress"}
          /\ now >= ProcessAt(tasks[i])
          /\ tasks' = [tasks EXCEPT ![i].state = "in_progress"]
          /\ running' = [running EXCEPT ![w] = i]
    /\ UNCHANGED <<callVars, verifyEmails, events, mails, gets, logged, now>>

\* an idle worker takes a task that is enqueued and whose delay has passed
Dequeue(w) ==
    /\ running[w] = 0
    /\ \E i \in 1..Len(tasks) :
          /\ tasks[i].state = "enqueued"
          /\ now >= ProcessAt(tasks[i])
          /\ tasks' = [tasks EXCEPT ![i].state = "in_progress"]
          /\ running' = [running EXCEPT ![w] = i]
    /\ UNCHANGED <<callVars, verifyEmails, events, mails, gets, logged, now>>

\* the handler of worker w has returned e, having called store.GetUser got
\* times: the processor reports a failure to its ErrorHandler and records the
\* outcome
Finish(w, e, got) ==
    LET i == running[w] IN
    /\ tasks' = [tasks EXCEPT ![i] = Handled(tasks[i], e)]
    /\ events' = [events EXCEPT ![i] = Append(@, Outcome(tasks[i], e))]
    /\ running' = [running EXCEPT ![w] = 0]
    /\ gets' = [gets EXCEPT ![i] = @ + got]
    /\ logged' = [logged EXCEPT ![i] =
                     IF e = Nil THEN @
                     ELSE [n |-> @.n + 1, last |-> ErrorHandler(tasks[i], e)]]
    /\ UNCHANGED <<callVars, now>>

\* ProcessTaskSendVerifyEmail: json.Unmarshal fails
ProcessUnmarshalFail(w) ==
    /\ running[w] # 0
    /\ ~Unmarshals(tasks[running[w]].payload)
    /\ Finish(w, UnmarshalError, 0)
    /\ UNCHANGED <<verifyEmails, mails>>

\* ProcessTaskSendVerifyEmail: store.GetUser fails, with no row when the
\* user is not there or with another store error
ProcessGetUserFail(w, e) ==
    /\ running[w] # 0
    /\ Unmarshals(tasks[running[w]].payload)
    /\ e = "no rows in result set" => ~UsernameTaken(tasks[running[w]].payload.Username)
    /\ Finish(w, GetUserError(e), 1)
    /\ UNCHANGED <<verifyEmails, mails>>

\* ProcessTaskSendVerifyEmail: the user is found, store.CreateVerifyEmail fails
ProcessCreateVerifyEmailFail(w) ==
    /\ running[w] # 0
    /\ Unmarshals(tasks[running[w]].payload)
    /\ UsernameTaken(tasks[running[w]].payload.Username)
    /\ Finish(w, CreateVerifyEmailError("store_err"), 1)
    /\ UNCHANGED <<verifyEmails, mails>>

\* ProcessTaskSendVerifyEmail: the record is created, mailer.SendEmail fails
ProcessSendEmailFail(w) ==
    /\ running[w] # 0
    /\ Unmarshals(tasks[running[w]].payload)
    /\ UsernameTaken(tasks[running[w]].payload.Username)
    /\ verifyEmails' = verifyEmails \cup {NewVerifyEmail(tasks[running[w]].payload.Username)}
    /\ Finish(w, SendEmailError("mail_err"), 1)
    /\ UNCHANGED mails

\* ProcessTaskSendVerifyEmail: the record is created and the email is sent
ProcessOK(w) ==
    LET row == NewVerifyEmail(tasks[running[w]].payload.Username) IN
    /\ running[w] # 0
    /\ Unmarshals(tasks[running[w]].payload)
    /\ UsernameTaken(tasks[running[w]].payload.Username)
    /\ verifyEmails' = verifyEmails \cup {row}
    /\ mails' = mails \cup {[to |-> row.username, email_id |-> row.id]}
    /\ Finish(w, Nil, 1)

\* the steps of worker w: it takes a task, or its handler runs and returns
Worker(w) ==
    \/ Dequeue(w)
    \/ ProcessUnmarshalFail(w)
    \/ \E e \in {"no rows in result set", "store_err"} : ProcessGetUserFail(w, e)
    \/ ProcessCreateVerifyEmailFail(w)
    \/ ProcessSendEmailFail(w)
    \/ ProcessOK(w)

NextTasks == \E w \in Workers : Worker(w)

TaskSpec == InitTasks /\ [][NextTasks]_vars

\* the processing of task i ends in this step
AttemptEnds(i) == tasks[i].state = "in_progress" /\ tasks'[i].state # "in_progress"

\* the events of a task that failed k times and then succeeded
RetriesThenSuccess(k) ==
    [j \in 1..(k + 1) |-> IF j <= k THEN "failed_retry" ELSE "succeeded"]

\* C19: a handler that fails its first K attempts with a retryable error (such
\* as a failure of the notifier) and succeeds on attempt K+1, K being below
\* the retry budget, produces exactly K failed-retry events followed by one
\* succeeded event; after each failure the task is enqueued again with its
\* attempt counter incremented.
C19_RetriesThenSuccess ==
    /\ [](\A i \in 1..Len(tasks) :
              tasks[i].state = "succeeded" =>
                  /\ events[i] = RetriesThenSuccess(tasks[i].retried)
                  /\ tasks[i].retried <= tasks[i].max_retry)
    /\ [][\A i \in 1..Len(tasks) :
              (AttemptEnds(i) /\ tasks[i].retried < tasks[i].max_retry) =>
                  /\ ( \/ tasks'[i].last_err # Nil /\ ~IsSkipRetry(tasks'[i].last_err)
                       \/ verifyEmails' # verifyEmails /\ mails' = mails )
                     => /\ tasks'[i].state = "enqueued"
                        /\ tasks'[i].retried = tasks[i].retried + 1
                        /\ events'[i] = Append(events[i], "failed_retry")
                  /\ tasks'[i].last_err = Nil =>
                        /\ tasks'[i].state = "succeeded"
                        /\ tasks'[i].retried = tasks[i].retried
                        /\ events'[i] = Append(events[i], "succeeded")]_vars

\* a task has succeeded on its third attempt, after the notifier failed twice
C19_Witness ==
    \E i \in 1..Len(tasks) :
        /\ tasks[i].state = "succeeded"
        /\ tasks[i].retried = 2
        /\ events[i] = <<"failed_retry", "failed_retry", "succeeded">>
        /\ Cardinality(verifyEmails) = 3
        /\ Cardinality(mails) = 1

\* C20: a task whose handler always fails with a retryable error and whose
\* retry budget is B is attempted exactly B times and then reaches
\* failed-permanent exactly once; it is never attempted again.
C20_BudgetAttempts ==
    \A i \in 1..Len(tasks) :
        (tasks[i].state = "failed_permanent" /\ ~IsSkipRetry(tasks[i].last_err)) =>
            /\ Len(events[i]) = tasks[i].max_retry
            /\ \A j \in 1..(Len(events[i]) - 1) : events[i][j] = "failed_retry"
            /\ events[i][Len(events[i])] = "failed_permanent"
            /\ \A w \in Workers : running[w] # i

\* the handler's return when store.GetUser finds no row for the task's user
UserNotFound == GetUserError("no rows in result set")

\* C21: when the handler cannot find the task's user the failure is not
\* retryable: the task goes straight to failed-permanent, whatever retry
\* budget remains, and is not attempted again.
C21_UserNotFoundPermanent ==
    /\ [][\A i \in 1..Len(tasks) :
              (AttemptEnds(i) /\ tasks'[i].last_err = UserNotFound) =>
                  /\ tasks'[i].state = "failed_permanent"
                  /\ events'[i] = Append(events[i], "failed_permanent")]_vars
    /\ [](\A i \in 1..Len(tasks) :
              tasks[i].state = "failed_permanent" =>
                  \A w \in Workers : running[w] # i)

\* C22: a task whose payload cannot be deserialized is marked non-retryable
\* by the handler: it goes from in-progress straight to failed-permanent
\* after one attempt, with no store access, no VerifyEmail record created and
\* no email sent.
C22_MalformedPayloadPermanent ==
    /\ [][\A i \in 1..Len(tasks) :
              (AttemptEnds(i) /\ ~Unmarshals(tasks[i].payload)) =>
                  /\ tasks'[i].state = "failed_permanent"
                  /\ events'[i] = <<"failed_permanent">>
                  /\ gets'[i] = 0
                  /\ UNCHANGED <<users, verifyEmails, mails>>]_vars
    /\ [](\A i \in 1..Len(tasks) :
              ~Unmarshals(tasks[i].payload) =>
                  /\ tasks[i].state \in {"enqueued", "in_progress", "failed_permanent"}
                  /\ tasks[i].retried = 0
                  /\ Len(events[i]) <= 1
                  /\ gets[i] = 0)

\* a task with a malformed payload has been attempted once and has failed
\* permanently
C22_Witness ==
    \E i \in 1..Len(tasks) :
        /\ tasks[i].payload = Malformed
        /\ tasks[i].state = "failed_permanent"
        /\ IsSkipRetry(tasks[i].last_err)
        /\ events[i] = <<"failed_permanent">>

\* the workers that have task i in progress
InFlight(i) == {w \in Workers : running[w] = i}

\* C23: the same task is never in progress in two workers at the same time,
\* in every interleaving of the processor's workers.
C23_OneInFlight ==
    \A i \in 1..Len(tasks) :
        /\ Cardinality(InFlight(i)) <= 1
        /\ tasks[i].state = "in_progress" <=> InFlight(i) # {}

\* a task that was enqueued again is in progress in one worker while another
\* worker is idle
C23_Witness ==
    \E i \in 1..Len(tasks) :
        /\ tasks[i].retried > 0
        /\ Cardinality(InFlight(i)) = 1
        /\ \E w \in Workers : running[w] = 0

\* the processor keeps running and every worker is scheduled fairly
TaskLiveSpec == TaskSpec /\ \A w \in Workers : WF_vars(Worker(w))

\* task i has reached a terminal state
Terminal(i) == tasks[i].state \in {"succeeded", "failed_permanent"}

\* C24: every task accepted by the distributor is eventually executed at
\* least once and eventually reaches a terminal state (succeeded or
\* failed-permanent), assuming the processor keeps running and workers are
\* scheduled fairly; no task stays enqueued or in-progress forever.
C24_EventuallyTerminal ==
    /\ [](\A i \in 1..NumTasks : Terminal(i) => Len(events[i]) >= 1)
    /\ \A i \in 1..NumTasks : <>[]Terminal(i)

\* every task is terminal, one of them after an attempt that failed
C24_Witness ==
    /\ \A i \in 1..Len(tasks) : Terminal(i)
    /\ \E i \in 1..Len(tasks) : Len(events[i]) >= 2

\* the attempts of task i that failed
FailedAttempts(i) == {j \in 1..Len(events[i]) : events[i][j] # "succeeded"}

\* C25: no failed task is dropped silently: every failed processing attempt,
\* and in particular every transition to failed-permanent, is reported to the
\* processor's error handler with the task's type and payload.
C25_FailuresReported ==
    /\ [][\A i \in 1..Len(tasks) :
              (AttemptEnds(i) /\ tasks'[i].state # "succeeded") =>
                  /\ logged'[i].n = logged[i].n + 1
                  /\ logged'[i].last = [err |-> tasks'[i].last_err,
                                        type |-> TaskSendVerifyEmail,
                                        payload |-> tasks[i].payload]
                  /\ logged'[i].last.err # Nil]_vars
    /\ [](\A i \in 1..Len(tasks) :
              logged[i].n = Cardinality(FailedAttempts(i)))

\* a task has failed permanently after using up its retries, and every one
\* of its attempts was reported
C25_Witness ==
    \E i \in 1..Len(tasks) :
        /\ tasks[i].state = "failed_permanent"
        /\ logged[i].n = MaxRetry + 1
        /\ logged[i].last.payload = tasks[i].payload

(* ---------------------------- cancellation ----------------------------- *)

\* the positions of a call between a successful Begin and the return of the
\* Commit or Rollback that ends its transaction
InFlightPositions ==
    {"CreateTransfer", "CreateFromEntry", "CreateToEntry", "AddBalance1",
     "AddBalance2", "CreateUser", "AfterCreate", "UpdateVerifyEmail",
     "UpdateUser", "End"}

\* the caller cancels the context of call t while its transaction is in flight
Cancel(t) ==
    /\ pc[t] \in InFlightPositions
    /\ ~cancelled[t]
    /\ cancelled' = [cancelled EXCEPT ![t] = TRUE]
    /\ UNCHANGED <<txVars, tableVars, pc, arg, queueVars, code, called>>

\* one call, of TransferTx, of CreateUser or of VerifyEmailTx, with any
\* parameters
CancelWorkloads ==
    {[t \in Txs |-> IF t = 1 THEN a ELSE NoCall] :
        a \in Args \cup CreateUserRequests \cup VerifyArgs}

InitCancel ==
    /\ balance = [a \in Accounts |-> Balance0(a)]
    /\ transfers = {}
    /\ entries = {}
    /\ lock = [a \in Accounts |-> 0]
    /\ arg \in CancelWorkloads
    /\ pc = [t \in Txs |-> IF arg[t] = NoCall THEN "Off"
                           ELSE IF Callback(arg[t]) = "CreateUser" THEN "Validate"
                           ELSE "Begin"]
    /\ pend = [t \in Txs |-> NoWrites]
    /\ failed = [t \in Txs |-> FALSE]
    /\ err = [t \in Txs |-> Nil]
    /\ fnErr = [t \in Txs |-> Nil]
    /\ account1 = [t \in Txs |-> ZeroAccount]
    /\ result = [t \in Txs |-> IF Callback(arg[t]) = "UpdateVerifyEmail"
                               THEN ZeroVerifyResult ELSE ZeroResult]
    /\ ret = [t \in Txs |-> Nil]
    /\ applied = [t \in Txs |-> ZeroDelta]
    /\ issued = [t \in Txs |-> <<>>]
    /\ users = IF Callback(arg[1]) = "UpdateVerifyEmail"
               THEN {ExistingUser(u) : u \in Usernames}
               ELSE {ExistingUser(1)}
    /\ verifyEmails = VerifyEmails0
    /\ tasks = <<>>
    /\ code = [t \in Txs |-> NoCode]
    /\ called = [t \in Txs |-> 0]
    /\ wrote = [t \in Txs |-> NoUpdates]
    /\ events = <<>>
    /\ mails = {}
    /\ running = [w \in Workers |-> 0]
    /\ gets = <<>>
    /\ logged = <<>>
    /\ now = 0
    /\ cancelled = [t \in Txs |-> FALSE]

NextCancel ==
    \/ Next
    \/ NextUsers
    \/ NextVerify
    \/ \E t \in Txs : Cancel(t)

CancelSpec == InitCancel /\ [][NextCancel]_vars

SelfTransfer(t) == arg[t] # NoCall /\ arg[t].FromAccountID = arg[t].ToAccountID

\* MaxCalls concurrent calls on X and Y, all of the same amount, the first of
\* them a self-transfer
SelfWorkloads ==
    {w \in [Txs -> Args \cup {NoCall}] :
        /\ \A t \in Txs : (w[t] # NoCall) <=> (t <= MaxCalls)
        /\ \A t \in Txs : w[t] # NoCall =>
               /\ {w[t].FromAccountID, w[t].ToAccountID} \subseteq {X, Y}
               /\ w[t].Amount = w[1].Amount
        /\ w[1].FromAccountID = w[1].ToAccountID}

InitSelf == InitWith(SelfWorkloads)

SelfSpec == InitSelf /\ [][Next]_vars

\* C27: a self-transfer (from id equal to to id) does not block on its own
\* row lock and completes; it leaves the account's balance unchanged and
\* creates one Transfer and two offsetting Entries (-amount and +amount) on
\* that account.
C27_SelfTransfer ==
    \A t \in Txs :
        SelfTransfer(t) =>
            /\ pc[t] = "AddBalance2" => RowFree(t, arg[t].FromAccountID)
            /\ (pc[t] = "Done" /\ ret[t] = Nil) =>
                   /\ applied[t] = ZeroDelta
                   /\ TransfersOf(t) = {TransferRow(t, arg[t])}
                   /\ EntriesOf(t) =
                          {[call |-> t, seq |-> 1, account_id |-> arg[t].FromAccountID,
                            amount |-> -arg[t].Amount],
                           [call |-> t, seq |-> 2, account_id |-> arg[t].FromAccountID,
                            amount |-> arg[t].Amount]}

(* ------------------------ createTransfer handler ----------------------- *)

\* the currencies the handler's "currency" binding accepts
Currencies == {"USD", "EUR"}

\* the amounts a request can carry: zero, a negative amount and Amounts
RequestAmounts == {-1, 0} \cup Amounts

\* transferRequest, with the user the request is authenticated as; the
\* account after the last one stands for an id no account has
TransferRequests ==
    [FromAccountID : 1..(NumAccounts + 1), ToAccountID : 1..(NumAccounts + 1),
     Amount : RequestAmounts, Currency : Currencies, Username : Usernames]

\* the accounts rows the handler reads
AccountCurrency(id) == "USD"
AccountOwner(id) == IF id = X THEN 1 ELSE 2

\* a binding that only requires the amount to be present
ShouldBindJSONRequired(req) ==
    req.FromAccountID >= 1 /\ req.ToAccountID >= 1 /\ req.Amount # 0

\* ctx.ShouldBindJSON(&req) succeeds: binding:"required,min=1" on the two
\* ids, binding:"required,gt=0" on the amount
ShouldBindJSON(req) ==
    req.FromAccountID >= 1 /\ req.ToAccountID >= 1 /\ req.Amount > 0

\* the answer of validAccount for account id: "" when the account is valid
validAccount(id, currency) ==
    IF id \notin Accounts THEN "404"
    ELSE IF AccountCurrency(id) # currency THEN "400"
    ELSE ""

\* one request, with any parameters
RequestWorkloads ==
    {[t \in Txs |-> IF t = 1 THEN r ELSE NoCall] : r \in TransferRequests}

InitRequests ==
    /\ balance = [a \in Accounts |-> Balance0(a)]
    /\ transfers = {}
    /\ entries = {}
    /\ lock = [a \in Accounts |-> 0]
    /\ arg \in RequestWorkloads
    /\ pc = [t \in Txs |-> IF arg[t] = NoCall THEN "Off" ELSE "Bind"]
    /\ pend = [t \in Txs |-> NoWrites]
    /\ failed = [t \in Txs |-> FALSE]
    /\ err = [t \in Txs |-> Nil]
    /\ fnErr = [t \in Txs |-> Nil]
    /\ account1 = [t \in Txs |-> ZeroAccount]
    /\ result = [t \in Txs |-> ZeroResult]
    /\ ret = [t \in Txs |-> Nil]
    /\ applied = [t \in Txs |-> ZeroDelta]
    /\ issued = [t \in Txs |-> <<>>]
    /\ users = {ExistingUser(u) : u \in Usernames}
    /\ verifyEmails = {}
    /\ tasks = <<>>
    /\ code = [t \in Txs |-> NoCode]
    /\ called = [t \in Txs |-> 0]
    /\ wrote = [t \in Txs |-> NoUpdates]
    /\ events = <<>>
    /\ mails = {}
    /\ running = [w \in Workers |-> 0]
    /\ gets = <<>>
    /\ logged = <<>>
    /\ now = 0
    /\ cancelled = [t \in Txs |-> FALSE]

\* the handler answers with status c and returns
Respond(t, c) ==
    /\ code' = [code EXCEPT ![t] = c]
    /\ pc' = [pc EXCEPT ![t] = "Responded"]
    /\ UNCHANGED <<txVars, tableVars, arg, queueVars, called, cancelled>>

\* ShouldBindJSON fails: 400
BindFail(t) ==
    /\ pc[t] = "Bind"
    /\ ~ShouldBindJSON(arg[t])
    /\ Respond(t, "400")

Bind(t) ==
    /\ pc[t] = "Bind"
    /\ ShouldBindJSON(arg[t])
    /\ pc' = [pc EXCEPT ![t] = "ValidFrom"]
    /\ UNCHANGED <<txVars, tableVars, arg, frontVars>>

\* validAccount(req.FromAccountID) rejects the account, or store.GetAccount
\* fails
ValidFromFail(t, c) ==
    /\ pc[t] = "ValidFrom"
    /\ c \in {validAccount(arg[t].FromAccountID, arg[t].Currency), "500"} \ {""}
    /\ Respond(t, c)

\* the from-account is valid but belongs to another user: 401
NotOwner(t) ==
    /\ pc[t] = "ValidFrom"
    /\ validAccount(arg[t].FromAccountID, arg[t].Currency) = ""
    /\ AccountOwner(arg[t].FromAccountID) # arg[t].Username
    /\ Respond(t, "401")

ValidFrom(t) ==
    /\ pc[t] = "ValidFrom"
    /\ validAccount(arg[t].FromAccountID, arg[t].Currency) = ""
    /\ AccountOwner(arg[t].FromAccountID) = arg[t].Username
    /\ pc' = [pc EXCEPT ![t] = "ValidTo"]
    /\ UNCHANGED <<txVars, tableVars, arg, frontVars>>

ValidToFail(t, c) ==
    /\ pc[t] = "ValidTo"
    /\ c \in {validAccount(arg[t].ToAccountID, arg[t].Currency), "500"} \ {""}
    /\ Respond(t, c)

\* both accounts are valid: the handler calls server.store.TransferTx
ValidTo(t) ==
    /\ pc[t] = "ValidTo"
    /\ validAccount(arg[t].ToAccountID, arg[t].Currency) = ""
    /\ pc' = [pc EXCEPT ![t] = "Begin"]
    /\ UNCHANGED <<txVars, tableVars, arg, frontVars>>

\* TransferTx has returned: 500 on an error, 200 with the result otherwise
createTransferReturn(t) ==
    /\ pc[t] = "Done"
    /\ Respond(t, IF ret[t] # Nil THEN "500" ELSE "200")

HttpCodes == {"400", "401", "404", "500"}

NextRequests ==
    \/ Next
    \/ \E t \in Txs :
          \/ BindFail(t)
          \/ Bind(t)
          \/ \E c \in HttpCodes : ValidFromFail(t, c)
          \/ NotOwner(t)
          \/ ValidFrom(t)
          \/ \E c \in HttpCodes : ValidToFail(t, c)
          \/ ValidTo(t)
          \/ createTransferReturn(t)

RequestSpec == InitRequests /\ [][NextRequests]_vars

\* what a call has done to the store: reads of accounts, a transaction,
\* writes
NoStoreInteraction(t) ==
    /\ pc[t] \in {"Bind", "Responded"}
    /\ issued[t] = <<>>
    /\ pend[t] = NoWrites
    /\ NoneVisible(t)
    /\ \A a \in Accounts : lock[a] # t /\ balance[a] = Balance0(a)

\* C28: a transfer whose amount is not strictly positive is rejected before
\* any store interaction: no account is read, no transaction is opened and no
\* Transfer, Entry or balance change is made.
C28_NonPositiveRejected ==
    \A t \in Txs :
        (arg[t] # NoCall /\ arg[t].Amount <= 0) =>
            /\ NoStoreInteraction(t)
            /\ pc[t] = "Responded" => code[t] = "400"

\* a request with a non-positive amount and otherwise valid parameters has
\* been answered
C28_Witness ==
    \E t \in Txs :
        /\ arg[t] # NoCall
        /\ arg[t].Amount <= 0
        /\ validAccount(arg[t].FromAccountID, arg[t].Currency) = ""
        /\ validAccount(arg[t].ToAccountID, arg[t].Currency) = ""
        /\ AccountOwner(arg[t].FromAccountID) = arg[t].Username
        /\ pc[t] = "Responded"
        /\ code[t] = "400"

(* ------------------------- transfers in a cycle ------------------------ *)

\* one call per account, from the account to the next one and from the last
\* account to the first (A to B, B to C, C to A), all of the same amount
CycleWorkloads ==
    {[t \in Txs |->
         IF t <= NumAccounts
         THEN [FromAccountID |-> t, ToAccountID |-> (t % NumAccounts) + 1, Amount |-> m]
         ELSE NoCall] : m \in Amounts}

InitCycle == InitWith(CycleWorkloads)

\* no failure is injected and every call is scheduled fairly, as in LiveSpec
CycleSpec == InitCycle /\ [][NextOK]_vars /\ \A t \in Txs : WF_vars(StepOK(t))

\* some calls wait for row locks in a circle, of any length
LockWaitCycle ==
    \E S \in SUBSET Active :
        /\ S # {}
        /\ \A t \in S : \E u \in S : WaitsFor(t, u)

\* C29: the lock-ordering rule makes circular waits impossible for all
\* transactions, not only for one pair of accounts: for concurrent transfers
\* among three or more accounts forming a cycle (A to B, B to C, C to A),
\* every interleaving lets all transfers complete without a lock-wait cycle.
C29_CycleDeadlockFree ==
    /\ [](~LockWaitCycle)
    /\ <>[](\A t \in Active : Returned(t) /\ ret[t] = Nil /\ applied[t] = FullDelta(arg[t]))

\* three calls of the cycle wait in a chain: one waits for a row of a second,
\* which waits for a row of a third
C29_Witness ==
    \E t, u, v \in Active :
        /\ Cardinality({t, u, v}) = 3
        /\ WaitsFor(t, u)
        /\ WaitsFor(u, v)

(* ------------------- CreateUser and the task processor ----------------- *)

\* the clock runs until the delay of a task enqueued at time 0 has passed
MaxTime == ProcessIn + 1

\* one CreateUser request, with any parameters
SignupWorkloads ==
    {[t \in Txs |-> IF t = 1 THEN r ELSE NoCall] : r \in CreateUserRequests}

InitSignup ==
    /\ balance = [a \in Accounts |-> Balance0(a)]
    /\ transfers = {}
    /\ entries = {}
    /\ lock = [a \in Accounts |-> 0]
    /\ arg \in SignupWorkloads
    /\ pc = [t \in Txs |-> IF arg[t] = NoCall THEN "Off" ELSE "Validate"]
    /\ pend = [t \in Txs |-> NoWrites]
    /\ failed = [t \in Txs |-> FALSE]
    /\ err = [t \in Txs |-> Nil]
    /\ fnErr = [t \in Txs |-> Nil]
    /\ account1 = [t \in Txs |-> ZeroAccount]
    /\ result = [t \in Txs |-> ZeroResult]
    /\ ret = [t \in Txs |-> Nil]
    /\ applied = [t \in Txs |-> ZeroDelta]
    /\ issued = [t \in Txs |-> <<>>]
    /\ users \in {{}, {ExistingUser(1)}}
    /\ verifyEmails = {}
    /\ tasks = <<>>
    /\ code = [t \in Txs |-> NoCode]
    /\ called = [t \in Txs |-> 0]
    /\ wrote = [t \in Txs |-> NoUpdates]
    /\ events = <<>>
    /\ mails = {}
    /\ running = [w \in Workers |-> 0]
    /\ gets = <<>>
    /\ logged = <<>>
    /\ now = 0
    /\ cancelled = [t \in Txs |-> FALSE]

\* a second passes; nothing in the code bounds the time a step of the call,
\* its Commit included, takes
Tick ==
    /\ now < MaxTime
    /\ now' = now + 1
    /\ UNCHANGED <<callVars, verifyEmails, tasks, events, mails, running, gets, logged>>

\* the steps of worker w on the tasks CreateUser enqueues, whose payload is
\* always a marshalled PayloadSendVerifyEmail
SignupWorker(w) ==
    \/ Dequeue(w)
    \/ \E e \in {"no rows in result set", "store_err"} : ProcessGetUserFail(w, e)
    \/ ProcessCreateVerifyEmailFail(w)
    \/ ProcessSendEmailFail(w)
    \/ ProcessOK(w)

NextSignup ==
    \/ NextUsers
    \/ \E w \in Workers : SignupWorker(w)
    \/ Tick

SignupSpec == InitSignup /\ [][NextSignup]_vars

\* the transaction of call t has committed its users row
Committed(t) == UsersBy(t) # {}

\* C30: the 10-second processing delay set when the verification task is
\* enqueued ensures that the task is never picked up before the
\* user-creation transaction that enqueued it has committed: whenever
\* ProcessTaskSendVerifyEmail looks up the user of a task enqueued by a
\* CreateUserTx that commits, the user row is already visible.
C30_DelayCoversCommit ==
    \A i \in 1..Len(tasks) :
        (tasks[i].call # 0 /\ Committed(tasks[i].call)) =>
            tasks[i].last_err # UserNotFound

(* ------------------- DistributeTaskSendVerifyEmail --------------------- *)

\* the handler of the task has not run: nothing was looked up, recorded,
\* mailed or reported, and no worker holds a task it did not hold
HandlerNotRun ==
    UNCHANGED <<verifyEmails, mails, running, users>>

\* C31: DistributeTaskSendVerifyEmail never executes the task's handler; it
\* returns an error exactly when the serialization of the payload fails or
\* the queue backend rejects the enqueue, and then no task is added to the
\* queue; on success exactly one task with the given queue, retry budget and
\* delay is in state enqueued.
C31_DistributeOnlyEnqueues ==
    [][\A t \in Txs : CallbackInvoked(t) =>
          /\ HandlerNotRun
          /\ \A i \in 1..Len(tasks) :
                 /\ tasks'[i] = tasks[i]
                 /\ events'[i] = events[i]
                 /\ gets'[i] = gets[i]
                 /\ logged'[i] = logged[i]
          /\ fnErr'[t] # Nil <=> fnErr'[t] \in DistributeErrors
          /\ fnErr'[t] # Nil => Len(tasks') = Len(tasks)
          /\ fnErr'[t] = Nil =>
                 /\ Len(tasks') = Len(tasks) + 1
                 /\ LET task == tasks'[Len(tasks')] IN
                        /\ task.type = TaskSendVerifyEmail
                        /\ task.payload = [Username |-> arg[t].Username]
                        /\ task.queue = QueueCritical
                        /\ task.max_retry = MaxRetry
                        /\ task.process_in = ProcessIn
                        /\ task.state = "enqueued"
                        /\ task.retried = 0
                 /\ events'[Len(tasks')] = <<>>
                 /\ gets'[Len(tasks')] = 0
                 /\ logged'[Len(tasks')] = NoReport]_vars

\* DistributeTaskSendVerifyEmail has returned nil to the callback: its task is
\* in the queue, enqueued, and no attempt on it has been made
C31_Witness ==
    \E t \in Active :
        /\ called[t] = 1
        /\ fnErr[t] = Nil
        /\ pc[t] = "End"
        /\ \E i \in TasksBy(t) : tasks[i].state = "enqueued" /\ events[i] = <<>>

(* --------------------- CreateUser: invalid request --------------------- *)

\* CreateUserTx has not been called for call t: no transaction was begun or
\* ended and nothing is written or pending
NoCreateUserTx(t) ==
    /\ pc[t] \in {"Validate", "Responded"}
    /\ issued[t] = <<>>
    /\ pend[t] = NoWrites
    /\ err[t] = Nil
    /\ ret[t] = Nil
    /\ UsersBy(t) = {}

\* C32: when the CreateUser request fails validation the RPC returns
\* InvalidArgument, and neither CreateUserTx nor
\* DistributeTaskSendVerifyEmail is invoked: no user row is written and no
\* task is enqueued.
C32_InvalidRequestRejected ==
    \A t \in Active :
        ~arg[t].Valid =>
            /\ pc[t] = "Responded" => code[t] = "InvalidArgument"
            /\ pc[t] # "Responded" => code[t] = NoCode
            /\ NoCreateUserTx(t)
            /\ called[t] = 0
            /\ TasksBy(t) = {}

\* an invalid request has been answered while a valid one, for the same
\* username, has been through CreateUserTx and has its user and its task
C32_Witness ==
    \E t, u \in Active :
        /\ ~arg[t].Valid
        /\ pc[t] = "Responded"
        /\ code[t] = "InvalidArgument"
        /\ arg[u].Valid
        /\ arg[u].Username = arg[t].Username
        /\ UsersBy(u) # {}
        /\ TasksBy(u) # {}

(* ----------------------------- UpdateUser RPC -------------------------- *)

BankerRole == "banker"
DepositorRole == "depositor"
\* the roles a token can carry: the two of the bank and one it does not know
Roles == {BankerRole, DepositorRole, "guest"}

\* the payload of an access token, as VerifyToken decrypts it; expired_at is
\* in seconds, against now
TokenPayloads ==
    [decrypts : {TRUE}, Username : Usernames, Role : Roles, expired_at : {-1, 1}]

\* a token the maker's key does not decrypt
Garbage == [decrypts |-> FALSE, Username |-> 0, Role |-> "", expired_at |-> 0]

Tokens == TokenPayloads \cup {Garbage}

\* the token of a banker, not expired
BankerToken ==
    [decrypts |-> TRUE, Username |-> NumUsers, Role |-> BankerRole, expired_at |-> 1]

\* the incoming context: whether it has metadata, the number of authorization
\* values, and the fields of the first value (its type and its token)
NoHeader == [md |-> TRUE, values |-> 0, fields |-> 0, type |-> "", token |-> Garbage]

Headers ==
    {[NoHeader EXCEPT !.md = FALSE], NoHeader,
     [NoHeader EXCEPT !.values = 1, !.fields = 1, !.type = "bearer"],
     [NoHeader EXCEPT !.values = 1, !.fields = 2, !.type = "basic", !.token = BankerToken]}
    \cup {[NoHeader EXCEPT !.values = 1, !.fields = 2, !.type = ty, !.token = tk] :
              ty \in {"bearer", "Bearer"}, tk \in Tokens}

\* strings.ToLower on the authorization types of the model
ToLower(str) == IF str = "Bearer" THEN "bearer" ELSE str

ErrInvalidToken == "token is invalid"
ErrExpiredToken == "token has expired"

\* maker.VerifyToken: the token must decrypt, and payload.Valid() rejects it
\* once its expiry time has passed
VerifyToken(tk) ==
    IF ~tk.decrypts THEN ErrInvalidToken
    ELSE IF now > tk.expired_at THEN ErrExpiredToken
    ELSE Nil

hasPermission(userRole, accessibleRoles) == userRole \in accessibleRoles

\* the error of authorizeUser on the context's header h; on nil its payload is
\* h.token
authorizeUser(h, accessibleRoles) ==
    IF ~h.md THEN "missing metadata"
    ELSE IF h.values = 0 THEN "missing authorization header"
    ELSE IF h.fields < 2 THEN "invalid authorization header format"
    ELSE IF ToLower(h.type) # "bearer" THEN "unsupported authorization type"
    ELSE IF VerifyToken(h.token) # Nil THEN "invalid access token"
    ELSE IF ~hasPermission(h.token.Role, accessibleRoles) THEN "permission denied"
    ELSE Nil

\* an UpdateUserRequest with its context: the header, the username, whether
\* the fields pass validateUpdateUserRequest, and the new full name
UpdateUserRequests ==
    [Header : Headers, Username : Usernames, Valid : BOOLEAN, FullName : {1}]

\* a request the server accepts: a banker renames user 1
BankerRequest ==
    [Header |-> [NoHeader EXCEPT !.values = 1, !.fields = 2, !.type = "bearer",
                                 !.token = BankerToken],
     Username |-> 1, Valid |-> TRUE, FullName |-> 2]

\* UpdateUser's own check: a caller who is no banker updates only themself
MayUpdate(payload, req) ==
    ~(payload.Role # BankerRole /\ payload.Username # req.Username)

\* one UpdateUser call with any request, beside a banker's accepted one
UpdateWorkloads ==
    {[t \in Txs |-> IF t = 1 THEN r ELSE IF t = 2 THEN BankerRequest ELSE NoCall] :
        r \in UpdateUserRequests}

InitUpdate ==
    /\ balance = [a \in Accounts |-> Balance0(a)]
    /\ transfers = {}
    /\ entries = {}
    /\ lock = [a \in Accounts |-> 0]
    /\ arg \in UpdateWorkloads
    /\ pc = [t \in Txs |-> IF arg[t] = NoCall THEN "Off" ELSE "Authorize"]
    /\ pend = [t \in Txs |-> NoWrites]
    /\ failed = [t \in Txs |-> FALSE]
    /\ err = [t \in Txs |-> Nil]
    /\ fnErr = [t \in Txs |-> Nil]
    /\ account1 = [t \in Txs |-> ZeroAccount]
    /\ result = [t \in Txs |-> ZeroResult]
    /\ ret = [t \in Txs |-> Nil]
    /\ applied = [t \in Txs |-> ZeroDelta]
    /\ issued = [t \in Txs |-> <<>>]
    /\ users = {ExistingUser(1)}
    /\ verifyEmails = {}
    /\ tasks = <<>>
    /\ code = [t \in Txs |-> NoCode]
    /\ called = [t \in Txs |-> 0]
    /\ wrote = [t \in Txs |-> NoUpdates]
    /\ events = <<>>
    /\ mails = {}
    /\ running = [w \in Workers |-> 0]
    /\ gets = <<>>
    /\ logged = <<>>
    /\ now = 0
    /\ cancelled = [t \in Txs |-> FALSE]

\* the status UpdateUser returns before it builds the store's parameters, nil
\* when it goes on: authorizeUser, then validateUpdateUserRequest, then the
\* caller's right to update this user
UpdateUserChecks(req) ==
    IF authorizeUser(req.Header, {BankerRole, DepositorRole}) # Nil THEN "Unauthenticated"
    ELSE IF ~req.Valid THEN "InvalidArgument"
    ELSE IF ~MayUpdate(req.Header.token, req) THEN "PermissionDenied"
    ELSE Nil

\* UpdateUser returns the status c without a call of the store
Reject(t, c) ==
    /\ code' = [code EXCEPT ![t] = c]
    /\ pc' = [pc EXCEPT ![t] = "Responded"]
    /\ UNCHANGED <<txVars, tableVars, arg, queueVars, called, cancelled>>

\* one of UpdateUser's checks rejects the request
UpdateUserReject(t) ==
    /\ pc[t] = "Authorize"
    /\ UpdateUserChecks(arg[t]) # Nil
    /\ Reject(t, UpdateUserChecks(arg[t]))

\* the request passes the checks
UpdateUserPass(t) ==
    /\ pc[t] = "Authorize"
    /\ UpdateUserChecks(arg[t]) = Nil
    /\ pc' = [pc EXCEPT ![t] = "StoreUpdateUser"]
    /\ UNCHANGED <<txVars, tableVars, arg, frontVars>>

\* the request has a password and util.HashPassword fails
UpdateHashPasswordFail(t) ==
    /\ pc[t] = "StoreUpdateUser"
    /\ Reject(t, "Internal")

\* a store.UpdateUser that also sets the verified flag of the row
StoreUpdateUserVerifies(t) ==
    /\ pc[t] = "StoreUpdateUser"
    /\ UsernameTaken(arg[t].Username)
    /\ ~UserLocked(t, arg[t].Username)
    /\ users' = {IF r.username = arg[t].Username
                 THEN [r EXCEPT !.full_name = arg[t].FullName,
                                !.is_email_verified = TRUE]
                 ELSE r : r \in users}
    /\ called' = [called EXCEPT ![t] = @ + 1]
    /\ code' = [code EXCEPT ![t] = "OK"]
    /\ pc' = [pc EXCEPT ![t] = "Responded"]
    /\ UNCHANGED <<txVars, verifyEmails, wrote, arg, queueVars, cancelled>>

\* server.store.UpdateUser updates the row of the username (it waits while a
\* transaction holds the row); the parameters UpdateUser builds leave
\* IsEmailVerified unset, which keeps the column
StoreUpdateUser(t) ==
    /\ pc[t] = "StoreUpdateUser"
    /\ UsernameTaken(arg[t].Username)
    /\ ~UserLocked(t, arg[t].Username)
    /\ users' = {IF r.username = arg[t].Username
                 THEN [r EXCEPT !.full_name = arg[t].FullName] ELSE r : r \in users}
    /\ called' = [called EXCEPT ![t] = @ + 1]
    /\ code' = [code EXCEPT ![t] = "OK"]
    /\ pc' = [pc EXCEPT ![t] = "Responded"]
    /\ UNCHANGED <<txVars, verifyEmails, wrote, arg, queueVars, cancelled>>

\* server.store.UpdateUser fails: with ErrRecordNotFound when no row has the
\* username (NotFound), or with another store error (Internal)
StoreUpdateUserFail(t, c) ==
    /\ pc[t] = "StoreUpdateUser"
    /\ c = "NotFound" <=> ~UsernameTaken(arg[t].Username)
    /\ called' = [called EXCEPT ![t] = @ + 1]
    /\ code' = [code EXCEPT ![t] = c]
    /\ pc' = [pc EXCEPT ![t] = "Responded"]
    /\ UNCHANGED <<txVars, tableVars, arg, queueVars, cancelled>>

NextUpdate ==
    \E t \in Txs :
        \/ UpdateUserReject(t)
        \/ UpdateUserPass(t)
        \/ UpdateHashPasswordFail(t)
        \/ StoreUpdateUser(t)
        \/ \E c \in {"NotFound", "Internal"} : StoreUpdateUserFail(t, c)

UpdateSpec == InitUpdate /\ [][NextUpdate]_vars

\* the caller of call t presents a bearer token that decrypts and has not
\* expired
TokenOK(t) ==
    LET h == arg[t].Header IN
    /\ h.md /\ h.values > 0 /\ h.fields >= 2
    /\ ToLower(h.type) = "bearer"
    /\ h.token.decrypts
    /\ now <= h.token.expired_at

\* the caller of call t presents no token, or one that has expired
TokenMissingOrExpired(t) ==
    LET h == arg[t].Header IN
    \/ ~h.md
    \/ h.values = 0
    \/ h.fields >= 2 /\ h.token.decrypts /\ now > h.token.expired_at

\* the caller of call t is a depositor other than the user being updated
OtherDepositor(t) ==
    /\ TokenOK(t)
    /\ arg[t].Header.token.Role = DepositorRole
    /\ arg[t].Header.token.Username # arg[t].Username

\* the caller of call t is a banker or the user being updated
BankerOrSelf(t) ==
    \/ arg[t].Header.token.Role = BankerRole
    \/ arg[t].Header.token.Username = arg[t].Username

RejectedCodes == {"Unauthenticated", "PermissionDenied", "InvalidArgument"}

\* C33: the UpdateUser RPC reaches the store only when the caller presents a
\* valid, unexpired bearer token and is either a banker or the user being
\* updated; a missing or expired token yields Unauthenticated, another
\* depositor yields PermissionDenied, and in every rejected case the user row
\* is unchanged.
C33_UpdateUserAuthorized ==
    /\ [](\A t \in Active :
              /\ called[t] > 0 => TokenOK(t) /\ BankerOrSelf(t)
              /\ pc[t] = "Responded" =>
                     /\ TokenMissingOrExpired(t) => code[t] = "Unauthenticated"
                     /\ OtherDepositor(t) => code[t] = "PermissionDenied")
    /\ [][\A t \in Active :
              (code'[t] # code[t] /\ code'[t] \in RejectedCodes) =>
                  users' = users /\ called'[t] = 0]_vars

(* ------------------- VerifyEmailTx: all or nothing --------------------- *)

\* in call t the record was matched and marked used, and q.UpdateUser failed
UpdateUserFailed(t) ==
    /\ result[t].VerifyEmail.id # 0
    /\ result[t].VerifyEmail.is_used
    /\ err[t] = "update_user_err"

\* C34: VerifyEmailTx is all-or-nothing: if updating the user's verified flag
\* fails after the VerifyEmail record was matched and marked used, the
\* transaction rolls back, so the record is not left consumed and the same id
\* and code can still be used for a later successful verification.
C34_VerifyAllOrNothing ==
    /\ [](\A t \in Active :
              (UpdateUserFailed(t) /\ Returned(t)) =>
                  /\ ret[t] # Nil
                  /\ Len(issued[t]) = 1
                  /\ issued[t][1].op = "Rollback"
                  /\ wrote[t] = NoUpdates
                  /\ Consumers = {} =>
                         /\ Matching(UpdateVerifyEmailParams(arg[t])) # {}
                         /\ \A r \in verifyEmails : r.id = Target => ~r.is_used
                         /\ \A r \in users : ~r.is_email_verified)
    /\ [][\A t \in Active :
              (UpdateUserFailed(t) /\ ExecTxEnds(t)) => StoreUnchanged]_vars

\* a call matched the record and failed on the user update; another call with
\* the same id and code, which had to wait for the first to end, has then
\* consumed the record and verified the user
C34_Witness ==
    \E t, u \in Active :
        /\ UpdateUserFailed(t)
        /\ Returned(t)
        /\ arg[u] = arg[t]
        /\ u # t
        /\ Returned(u)
        /\ ret[u] = Nil
        /\ wrote[u].used = {Target}
        /\ \E r \in users : r.username = Owner(Target) /\ r.is_email_verified

(* ------------------ CreateUserTx: the callback's error ----------------- *)

\* the callback of call t was invoked and returned an error: AfterCreate ran
\* and left no task
CallbackFailed(t) == called[t] = 1 /\ TasksBy(t) = {}

\* what execTx returns for the callback's error e: e itself, or e together
\* with the error of a failed rollback
ReportsOf(e) == {e} \cup {Errorf(e, rbErr) : rbErr \in RollbackErrors}

\* C35: if the callback passed to CreateUserTx returns an error (the task
\* enqueue failed), CreateUserTx returns that error and the inserted user row
\* is rolled back; consequently every committed user created through
\* CreateUserTx had its callback return success before the commit.
C35_CallbackErrorRollsBack ==
    /\ [][\A t \in Active :
              (ExecTxEnds(t) /\ fnErr[t] \in DistributeErrors) =>
                  /\ pend[t].users = {UserRow(t, arg[t])}
                  /\ Len(issued'[t]) = 1
                  /\ issued'[t][1].op = "Rollback"
                  /\ ret'[t] \in ReportsOf(fnErr[t])
                  /\ issued'[t][1].err = Nil => ret'[t] = fnErr[t]
                  /\ pend'[t] = NoWrites
                  /\ StoreUnchanged]_vars
    /\ [](\A t \in Active :
              (CallbackFailed(t) /\ UserTxReturned(t)) =>
                  /\ \E e \in DistributeErrors : ret[t] \in ReportsOf(e)
                  /\ UsersBy(t) = {}
                  /\ ~UsernameTaken(arg[t].Username) \/
                         \E r \in users : r.username = arg[t].Username /\ r.call # t)
    /\ [][\A t \in Active :
              UsersBy(t)' # UsersBy(t) =>
                  /\ pc[t] = "End"
                  /\ called[t] = 1
                  /\ fnErr[t] = Nil
                  /\ TasksBy(t) # {}]_vars
    /\ [](\A t \in Active : UsersBy(t) # {} => called[t] = 1 /\ ~CallbackFailed(t))

\* the enqueue of one call failed and the call has returned without its user,
\* while another call, whose callback succeeded, has committed the same
\* username
C35_Witness ==
    \E t, u \in Active :
        /\ CallbackFailed(t)
        /\ pc[t] = "Responded"
        /\ ret[t] \in DistributeErrors
        /\ UsersBy(t) = {}
        /\ arg[u].Username = arg[t].Username
        /\ UsersBy(u) # {}
        /\ TasksBy(u) # {}

(* ------------------- the operations on the users table ----------------- *)

\* a VerifyEmailTx call, an UpdateUser call of a banker for user 1 and a
\* CreateUser call for the last username, side by side; the fields of the
\* two requests are valid or not
CoreWorkloads ==
    {[t \in Txs |-> IF t = 1 THEN v
                    ELSE IF t = 2 THEN [BankerRequest EXCEPT !.Valid = b]
                    ELSE IF t = 3 THEN [Username |-> NumUsers, Valid |-> c]
                    ELSE NoCall] : v \in VerifyArgs, b \in BOOLEAN, c \in BOOLEAN}

InitCore ==
    /\ balance = [a \in Accounts |-> Balance0(a)]
    /\ transfers = {}
    /\ entries = {}
    /\ lock = [a \in Accounts |-> 0]
    /\ arg \in CoreWorkloads
    /\ pc = [t \in Txs |-> IF t = 1 THEN "Begin"
                            ELSE IF t = 2 THEN "Authorize"
                            ELSE IF t = 3 THEN "Validate"
                            ELSE "Off"]
    /\ pend = [t \in Txs |-> NoWrites]
    /\ failed = [t \in Txs |-> FALSE]
    /\ err = [t \in Txs |-> Nil]
    /\ fnErr = [t \in Txs |-> Nil]
    /\ account1 = [t \in Txs |-> ZeroAccount]
    /\ result = [t \in Txs |-> IF t = 1 THEN ZeroVerifyResult ELSE ZeroResult]
    /\ ret = [t \in Txs |-> Nil]
    /\ applied = [t \in Txs |-> ZeroDelta]
    /\ issued = [t \in Txs |-> <<>>]
    /\ users = {ExistingUser(u) : u \in Usernames \ {NumUsers}}
    /\ verifyEmails = {[r EXCEPT !.is_used = FALSE] : r \in VerifyEmails0}
    /\ tasks = <<>>
    /\ code = [t \in Txs |-> NoCode]
    /\ called = [t \in Txs |-> 0]
    /\ wrote = [t \in Txs |-> NoUpdates]
    /\ events = <<>>
    /\ mails = {}
    /\ running = [w \in Workers |-> 0]
    /\ gets = <<>>
    /\ logged = <<>>
    /\ now = 0
    /\ cancelled = [t \in Txs |-> FALSE]

\* the steps of CreateUser and of the callback of CreateUserTx in call t
CreateUserSteps(t) ==
    \/ ValidateFail(t)
    \/ HashPasswordFail(t)
    \/ Validate(t)
    \/ CreateUser(t)
    \/ \E e \in {"unique_violation", "insert_err"} : CreateUserFail(t, e)
    \/ AfterCreate(t)
    \/ \E e \in DistributeErrors : AfterCreateFail(t, e)
    \/ CreateUserReturn(t)

NextCore ==
    \/ NextVerify
    \/ NextUpdate
    \/ CreateUserSteps(3)

CoreSpec == InitCore /\ [][NextCore]_vars

\* the usernames whose row has the verified flag, in rows
Verified(rows) == {r.username : r \in {x \in rows : x.is_email_verified}}

\* C36: in every reachable state a user whose email-verified flag is true
\* has a consumed VerifyEmail record whose username is that user's:
\* VerifyEmailTx sets the flag only for the owner of the record it consumed,
\* in the same transaction, and no other core operation sets the flag.
C36_VerifiedHasConsumedRecord ==
    /\ [](\A r \in users :
              r.is_email_verified =>
                  \E v \in verifyEmails : v.is_used /\ v.username = r.username)
    /\ [][Verified(users') # Verified(users) =>
              \E t \in Active :
                  /\ "EmailId" \in DOMAIN arg[t]
                  /\ pc[t] = "End" /\ pc'[t] = "Done"
                  /\ issued'[t] = <<[op |-> "Commit", err |-> Nil]>>
                  /\ pend[t].used = {arg[t].EmailId}
                  /\ Verified(users') = Verified(users) \cup pend[t].verified
                  /\ \A u \in pend[t].verified :
                         \E v \in verifyEmails' :
                             /\ v.id \in pend[t].used
                             /\ v.username = u
                             /\ v.is_used
                             /\ v \notin verifyEmails]_vars

\* the three operations have all written the users table: the banker's
\* update and the new user are there, and the user of the consumed record is
\* verified
C36_Witness ==
    /\ \E r \in users : r.username = 1 /\ r.full_name = 2 /\ r.is_email_verified
    /\ \E v \in verifyEmails : v.is_used /\ v.username = 1
    /\ \E r \in users : r.username = NumUsers /\ r.call = 3 /\ ~r.is_email_verified
    /\ code[2] = "OK"

(* -------------------- retries and VerifyEmail records ------------------ *)

\* the queue holds tasks for users of the store, one of whom may have a
\* consumed record of an earlier task; the delay of the tasks has passed
InitNotify ==
    /\ balance = [a \in Accounts |-> Balance0(a)]
    /\ transfers = {}
    /\ entries = {}
    /\ lock = [a \in Accounts |-> 0]
    /\ arg = [t \in Txs |-> NoCall]
    /\ pc = [t \in Txs |-> "Off"]
    /\ pend = [t \in Txs |-> NoWrites]
    /\ failed = [t \in Txs |-> FALSE]
    /\ err = [t \in Txs |-> Nil]
    /\ fnErr = [t \in Txs |-> Nil]
    /\ account1 = [t \in Txs |-> ZeroAccount]
    /\ result = [t \in Txs |-> ZeroResult]
    /\ ret = [t \in Txs |-> Nil]
    /\ applied = [t \in Txs |-> ZeroDelta]
    /\ issued = [t \in Txs |-> <<>>]
    /\ users = {ExistingUser(u) : u \in Usernames}
    /\ verifyEmails \in {{}, {[id |-> 1, username |-> 1, secret_code |-> "secret",
                                is_used |-> TRUE]}}
    /\ now = ProcessIn
    /\ \E q \in [1..NumTasks -> {1, NumUsers}] :
          tasks = [i \in 1..NumTasks |->
                      [NewTask(0, q[i]) EXCEPT !.enqueued_at = 0]]
    /\ code = [t \in Txs |-> NoCode]
    /\ called = [t \in Txs |-> 0]
    /\ wrote = [t \in Txs |-> NoUpdates]
    /\ events = [i \in 1..NumTasks |-> <<>>]
    /\ mails = {}
    /\ running = [w \in Workers |-> 0]
    /\ gets = [i \in 1..NumTasks |-> 0]
    /\ logged = [i \in 1..NumTasks |-> NoReport]
    /\ cancelled = [t \in Txs |-> FALSE]

\* the processor when the store works and only the notifier can fail
NextNotify ==
    \E w \in Workers :
        \/ Dequeue(w)
        \/ ProcessSendEmailFail(w)
        \/ ProcessOK(w)

NotifySpec == InitNotify /\ [][NextNotify]_vars

\* the records of user u that are not consumed: those the attempts of the
\* processor have created
NewRecords(u) == {r \in verifyEmails : r.username = u /\ ~r.is_used}

\* the number of attempts made so far on the tasks i..NumTasks of user u
RECURSIVE AttemptsFrom(_, _)
AttemptsFrom(i, u) ==
    IF i > NumTasks THEN 0
    ELSE (IF tasks[i].payload.Username = u THEN Len(events[i]) ELSE 0)
         + AttemptsFrom(i + 1, u)

\* record r can be consumed by its id and code, and consuming it leaves every
\* other record as it is
Consumable(r) ==
    /\ Matching([ID |-> r.id, SecretCode |-> r.secret_code]) = {r}
    /\ SetUsed(verifyEmails, {r.id}) \ {[r EXCEPT !.is_used = TRUE]} = verifyEmails \ {r}

InitOverdraft ==
    /\ \E b \in {0, InitialBalance} : balance = [a \in Accounts |-> b * a]
    /\ transfers = {}
    /\ entries = {}
    /\ lock = [a \in Accounts |-> 0]
    /\ arg \in RequestWorkloads
    /\ pc = [t \in Txs |-> IF arg[t] = NoCall THEN "Off" ELSE "Bind"]
    /\ pend = [t \in Txs |-> NoWrites]
    /\ failed = [t \in Txs |-> FALSE]
    /\ err = [t \in Txs |-> Nil]
    /\ fnErr = [t \in Txs |-> Nil]
    /\ account1 = [t \in Txs |-> ZeroAccount]
    /\ result = [t \in Txs |-> ZeroResult]
    /\ ret = [t \in Txs |-> Nil]
    /\ applied = [t \in Txs |-> ZeroDelta]
    /\ issued = [t \in Txs |-> <<>>]
    /\ users = {ExistingUser(u) : u \in Usernames}
    /\ verifyEmails = {}
    /\ tasks = <<>>
    /\ code = [t \in Txs |-> NoCode]
    /\ called = [t \in Txs |-> 0]
    /\ wrote = [t \in Txs |-> NoUpdates]
    /\ events = <<>>
    /\ mails = {}
    /\ running = [w \in Workers |-> 0]
    /\ gets = <<>>
    /\ logged = <<>>
    /\ now = 0
    /\ cancelled = [t \in Txs |-> FALSE]

OverdraftSpec == InitOverdraft /\ [][NextRequests]_vars

\* call t moves money between two different accounts
TwoAccounts(t) == arg[t] # NoCall /\ arg[t].FromAccountID # arg[t].ToAccountID

\* the balance of account a as call t sees it: the committed balance and the
\* call's own pending updates
SeenBalance(t, a) == balance[a] + pend[t].delta[a]

\* C38: TransferTx applies the debit unconditionally: it never checks the
\* from-account's balance against the amount, so its outcome does not depend
\* on available funds and a successful transfer can leave the from-account's
\* balance negative.
C38_DebitUnconditional ==
    /\ [](\A t \in Active :
              /\ (pc[t] = "AddBalance1" /\ RowFree(t, addMoneyArgs(arg[t]).accountID1))
                     => ENABLED AddBalance1(t)
              /\ (pc[t] = "AddBalance2" /\ RowFree(t, addMoneyArgs(arg[t]).accountID2))
                     => ENABLED AddBalance2(t))
    /\ [][\A t \in Active :
              LET from == arg[t].FromAccountID IN
              (TwoAccounts(t) /\ from \in Accounts
                  /\ pend'[t].delta[from] # pend[t].delta[from]
                  /\ pend'[t] # NoWrites) =>
                  /\ pend'[t].delta[from] = pend[t].delta[from] - arg[t].Amount
                  /\ \/ account1'[t] = [id |-> from,
                                         balance |-> SeenBalance(t, from) - arg[t].Amount]
                     \/ result'[t].FromAccount = [id |-> from,
                                         balance |-> SeenBalance(t, from) - arg[t].Amount]]_vars
    /\ [][\A t \in Active :
              LET from == arg[t].FromAccountID IN
              (TwoAccounts(t) /\ ExecTxEnds(t) /\ pend[t].delta = FullDelta(arg[t])
                  /\ issued'[t] = <<[op |-> "Commit", err |-> Nil]>>) =>
                  /\ balance'[from] = balance[from] - arg[t].Amount
                  /\ ret'[t] = Nil]_vars
    /\ [](\A t \in Active :
              (TwoAccounts(t) /\ code[t] = "200" /\ applied[t] = FullDelta(arg[t])) =>
                  /\ result[t].FromAccount.balance = balance[arg[t].FromAccountID]
                  /\ result[t].ToAccount.balance = balance[arg[t].ToAccountID])

\* a transfer from an account that held nothing has been answered 200 and
\* the account's balance is below zero
C38_Witness ==
    \E t \in Active :
        /\ TwoAccounts(t)
        /\ code[t] = "200"
        /\ applied[t] = FullDelta(arg[t])
        /\ balance[arg[t].FromAccountID] = 0 - arg[t].Amount
        /\ result[t].FromAccount.balance < 0

(* -------------------- execTx ends its transaction once ----------------- *)

\* connPool.Begin failed in call t
BeginFailed(t) == ret[t] = "begin_err"

\* nothing of the callback of call t has run
CallbackNotRun(t) ==
    /\ called[t] = 0
    /\ err[t] = Nil
    /\ pend[t] = NoWrites
    /\ UsersBy(t) = {}
    /\ TasksBy(t) = {}

\* C39: every call to execTx ends its transaction exactly once: if Begin
\* fails the callback is never invoked and the Begin error is returned;
\* otherwise exactly one of Commit or Rollback is issued (never both, never
\* neither), and a Commit failure is returned to the caller as the call's
\* error.
C39_TransactionEndsOnce ==
    /\ [](\A t \in Active :
              /\ Len(issued[t]) <= 1
              /\ ~UserTxReturned(t) => issued[t] = <<>> /\ ~BeginFailed(t)
              /\ (UserTxReturned(t) /\ BeginFailed(t)) =>
                     issued[t] = <<>> /\ CallbackNotRun(t)
              /\ (UserTxReturned(t) /\ ~BeginFailed(t)) =>
                     /\ Len(issued[t]) = 1
                     /\ issued[t][1].op \in {"Commit", "Rollback"}
                     /\ (issued[t][1].op = "Commit" /\ issued[t][1].err # Nil) =>
                            ret[t] = issued[t][1].err
                     /\ (issued[t][1].op = "Commit" /\ issued[t][1].err = Nil) =>
                            ret[t] = Nil)
    /\ [][\A t \in Active :
              (pc[t] = "Begin" /\ pc'[t] = "Done") =>
                  /\ ret'[t] = "begin_err"
                  /\ issued'[t] = <<>>
                  /\ StoreUnchanged
                  /\ UNCHANGED <<called, tasks, pend, err>>]_vars

\* of two calls, one has returned the error of Begin without a callback, the
\* other the error of its one Commit, after its callback had enqueued the task
C39_Witness ==
    \E t, u \in Active :
        /\ pc[t] = "Responded"
        /\ BeginFailed(t)
        /\ issued[t] = <<>>
        /\ pc[u] = "Responded"
        /\ issued[u] = <<[op |-> "Commit", err |-> "commit_err"]>>
        /\ ret[u] = "commit_err"
        /\ called[u] = 1

====
